---- MODULE Spec2Model ----
(***************************************************************************)
(* Plugin lifecycle, plugin manager, session mapper and the yunzhijia      *)
(* message handler of ai-knowledge-base, as state machines.                *)
(*                                                                         *)
(* Specifications:                                                         *)
(*   SpecLifecycle  PluginLifecycle.load/register/start/stop called in any *)
(*                  order on one PluginInstance                            *)
(*   SpecManager    PluginManager: load_all at startup, then overlapping   *)
(*                  enable_plugin / disable_plugin requests and stop_all   *)
(*   SpecDiscovery  load_all and install_plugin over any small disk        *)
(*   SpecToggle     load_all, enable_plugin and disable_plugin in sequence *)
(*   SpecMapper     PluginSessionMapper under a discrete clock             *)
(*   SpecEquiv      PluginSessionMapper and the legacy SessionMapper side  *)
(*                  by side                                                *)
(*   SpecHandler    YunzhijiaHandler.process_message tasks, one per        *)
(*                  webhook, interleaved at their await points             *)
(*   SpecTurn       one webhook after the other, every kind of text        *)
(*   SpecTranslate  the events of one turn and the messages sent for them  *)
(*   SpecStop       stop commands that arrive during a turn                *)
(*   SpecFailure    webhooks whose handling raises                         *)
(*   SpecLegacy     the tag-reading translator of api/handlers/yunzhijia   *)
(*   SpecStream     StreamProcessor.process over the SDK's messages        *)
(***************************************************************************)
EXTENDS Integers, Sequences, FiniteSets, TLC

VARIABLES
    inst,        \* SpecLifecycle: the PluginInstance under test
    lastCall,    \* SpecLifecycle: the last lifecycle call, its pre-state and its result
    passed,      \* SpecLifecycle: history, 1 once the instance has been Loaded,
                 \*   2 once it has after that been Registered
    registry,    \* SpecManager: PluginRegistry._plugins, plugin id -> PluginInstance
    enabledList, \* SpecManager: PluginConfigService._config["enabled"]
    mounted,     \* SpecManager: routers included on the FastAPI app, per plugin
    mtasks,      \* SpecManager: the coroutines of the manager, each at its await point
    phase,       \* SpecManager: "startup" | "loading" | "loaded" | "serving"
    lastStep,    \* SpecManager: what the last scheduler step did
    disk,        \* SpecManager / SpecDiscovery: the plugin directories of the search paths
    lastDisc,    \* SpecDiscovery: the last load_all / install_plugin, what it found, the
                 \*   registry, the list and the disk before it, and its result
    now,         \* SpecMapper / SpecHandler: time.time()
    session_map, \* SpecMapper / SpecHandler: PluginSessionMapper.session_map
    lastOp,      \* SpecMapper: the last mapper call, the map before it and its result
    updates,     \* SpecMapper: history, per external id the last update_activity
    htasks,      \* SpecHandler, SpecTurn: the process_message tasks, each at its await
                 \*   point or returned
    stream,      \* SpecStream: the StreamProcessor of the request being served
    interrupt_registry, \* SpecStream: the agent session ids registered for interrupt
    legacy       \* SpecEquiv: the legacy SessionMapper's session_map and the value
                 \*   its last call returned

vars == <<inst, lastCall, passed, registry, enabledList, mounted, mtasks, phase, lastStep,
          disk, lastDisc, now, session_map, lastOp, updates, htasks,
          stream, interrupt_registry, legacy>>

lifecycleVars == <<inst, lastCall, passed>>
managerVars == <<registry, enabledList, mounted, mtasks, phase, lastStep>>
mapperVars == <<now, session_map, lastOp, updates>>
handlerVars == <<htasks>>
discoveryVars == <<disk, lastDisc>>
streamVars == <<stream, interrupt_registry>>
legacyVars == <<legacy>>

None == "None"

(***************************************************************************)
(* api/plugins/registry.py                                                 *)
(***************************************************************************)
DISCOVERED == "discovered"
LOADED == "loaded"
REGISTERED == "registered"
STARTED == "started"
STOPPED == "stopped"
ERROR == "error"

PluginState == {DISCOVERED, LOADED, REGISTERED, STARTED, STOPPED, ERROR}

\* The values of plugin_object: None, the entry function load resolved, or the
\* object the entry function returned, with or without the optional hooks.
NoObject == [kind |-> "None", on_start |-> FALSE, on_stop |-> FALSE]

RegisterFunc == [kind |-> "function", on_start |-> FALSE, on_stop |-> FALSE]

PluginObjects == [kind : {"object"}, on_start : BOOLEAN, on_stop : BOOLEAN]

\* A PluginInstance as _load_manifest builds it: the dataclass defaults.
\* plugin_object is None, the entry function "register_func", or the object the
\* entry function returned, described by the hooks it has.
PluginInstance(source) ==
    [path |-> << >>, source |-> source, state |-> DISCOVERED, enabled |-> FALSE,
     api |-> None, plugin_object |-> NoObject, error |-> None]

\* hasattr(instance.plugin_object, "on_start") / "on_stop"
hasattr_on_start(obj) == obj.on_start

hasattr_on_stop(obj) == obj.on_stop

(***************************************************************************)
(* api/plugins/lifecycle.py                                                *)
(*                                                                         *)
(* What the plugin's code does when the lifecycle reaches it is an input:  *)
(*   load      "ok", or the exception raised inside the try block          *)
(*   register  what register(api) does: raises, returns None, or returns   *)
(*             a plugin object                                             *)
(*   hooks     "ok" or "raise"                                             *)
(* Each operator returns the instance after the call, the value returned,  *)
(* the exception raised inside the call (None if none), the exception that *)
(* leaves the call (None if none) and whether a hook was invoked.          *)
(***************************************************************************)
LoadFailures == {"ValueError", "ImportError", "AttributeError", "TypeError"}

LoadOutcomes == {"ok"} \cup LoadFailures

Raises == [kind |-> "raise", on_start |-> FALSE, on_stop |-> FALSE]

RegisterOutcomes == {Raises, NoObject} \cup PluginObjects

HookOutcomes == {"ok", "raise"}

RegisterError == "register_raised"
StartError == "on_start_raised"
StopError == "on_stop_raised"

\* Every exception the plugin code above raises derives from Exception.
Exceptions == LoadFailures \cup {RegisterError, StartError, StopError}

\* `except Exception as e`: whether the handler catches e.
except_Exception(e) == e \in Exceptions

Result(i, ret, raised, exc, hook) ==
    [inst |-> i, ret |-> ret, raised |-> raised, exc |-> exc, hook |-> hook]

\* The except branch of load, register and start: state = ERROR, error = str(e).
on_failure(i, e) ==
    IF except_Exception(e)
    THEN Result([i EXCEPT !.state = ERROR, !.error = e], FALSE, e, None, FALSE)
    ELSE Result(i, FALSE, e, e, FALSE)

\* load has no check of the current state: it runs from any state.
lifecycle_load(i, outcome) ==
    IF outcome = "ok"
    THEN Result([i EXCEPT !.plugin_object = RegisterFunc, !.state = LOADED],
                TRUE, None, None, FALSE)
    ELSE on_failure(i, outcome)

register_guard_mut(i) == TRUE

register_guard(i) == i.state = LOADED

lifecycle_register(i, api, outcome) ==
    IF ~register_guard(i)
    THEN Result(i, FALSE, None, None, FALSE)
    ELSE IF outcome = Raises
    THEN on_failure(i, RegisterError)
    ELSE Result([i EXCEPT !.plugin_object = IF outcome = NoObject THEN @ ELSE outcome,
                          !.api = api,
                          !.state = REGISTERED],
                TRUE, None, None, FALSE)

start_guard_mut(i) == TRUE

start_guard(i) == i.state = REGISTERED

start_failure_mut(i) ==
    Result([i EXCEPT !.error = StartError], FALSE, StartError, None, TRUE)

\* The except branch of start (the hook raised).
start_failure(i) ==
    [on_failure(i, StartError) EXCEPT !.hook = TRUE]

\* The rest of start's try block, once the hook (if any) has come back with `outcome`.
start_finish(i, hook, outcome) ==
    IF hook /\ outcome = "raise"
    THEN start_failure(i)
    ELSE Result([i EXCEPT !.state = STARTED], TRUE, None, None, hook)

lifecycle_start(i, outcome) ==
    IF ~start_guard(i)
    THEN Result(i, FALSE, None, None, FALSE)
    ELSE start_finish(i, hasattr_on_start(i.plugin_object), outcome)

stop_guard_mut(i) == FALSE

\* `if instance.state != PluginState.STARTED: return True`
stop_guard(i) == i.state # STARTED

stop_finish_mut(i, hook, outcome) ==
    IF hook /\ outcome = "raise"
    THEN [on_failure(i, StopError) EXCEPT !.hook = TRUE]
    ELSE Result([i EXCEPT !.state = STOPPED], TRUE, None, None, hook)

\* The rest of stop's try block; its except branch records the error and keeps the state.
stop_finish(i, hook, outcome) ==
    IF hook /\ outcome = "raise"
    THEN Result([i EXCEPT !.error = StopError], FALSE, StopError, None, TRUE)
    ELSE Result([i EXCEPT !.state = STOPPED], TRUE, None, None, hook)

lifecycle_stop(i, outcome) ==
    IF stop_guard(i)
    THEN Result(i, TRUE, None, None, FALSE)
    ELSE stop_finish(i, hasattr_on_stop(i.plugin_object), outcome)

(***************************************************************************)
(* SpecLifecycle: the four operations, in any order, on one instance.      *)
(***************************************************************************)
NoCall == [op |-> None, pre |-> PluginInstance("bundled"), ret |-> TRUE,
           raised |-> None, exc |-> None, hook |-> FALSE]

Call(op, r) ==
    /\ inst' = r.inst
    /\ lastCall' = [op |-> op, pre |-> inst, ret |-> r.ret, raised |-> r.raised,
                    exc |-> r.exc, hook |-> r.hook]
    /\ passed' = IF passed = 0 /\ r.inst.state = LOADED THEN 1
                 ELSE IF passed = 1 /\ r.inst.state = REGISTERED THEN 2
                 ELSE passed
    /\ UNCHANGED <<managerVars, discoveryVars, mapperVars, handlerVars,
                    streamVars, legacyVars>>

Load == \E o \in LoadOutcomes : Call("load", lifecycle_load(inst, o))

Register == \E o \in RegisterOutcomes : Call("register", lifecycle_register(inst, "api", o))

Start == \E o \in HookOutcomes : Call("start", lifecycle_start(inst, o))

Stop == \E o \in HookOutcomes : Call("stop", lifecycle_stop(inst, o))

IdleManager ==
    /\ registry = << >>
    /\ enabledList = << >>
    /\ mounted = << >>
    /\ mtasks = << >>
    /\ phase = "off"
    /\ lastStep = << >>

IdleDiscovery ==
    /\ disk = << >>
    /\ lastDisc = << >>

IdleMapper ==
    /\ now = 0
    /\ session_map = << >>
    /\ lastOp = << >>
    /\ updates = << >>

IdleHandler ==
    /\ htasks = << >>

IdleStream ==
    /\ stream = << >>
    /\ interrupt_registry = {}

IdleLegacy ==
    /\ legacy = << >>

IdleLifecycle ==
    /\ inst = PluginInstance("bundled")
    /\ lastCall = NoCall
    /\ passed = 0

InitLifecycle ==
    /\ inst = PluginInstance("bundled")
    /\ lastCall = NoCall
    /\ passed = 0
    /\ IdleManager
    /\ IdleDiscovery
    /\ IdleMapper
    /\ IdleHandler
    /\ IdleStream
    /\ IdleLegacy

NextLifecycle == Load \/ Register \/ Start \/ Stop

SpecLifecycle == InitLifecycle /\ [][NextLifecycle]_vars

(***************************************************************************)
(* api/plugins/manager.py, api/plugins/config.py, api/routers/plugins.py   *)
(*                                                                         *)
(* The manager's coroutines run on one event loop. A coroutine gives up    *)
(* the loop only inside a plugin's on_start / on_stop hook (the only       *)
(* awaits that reach plugin code), so every action below runs from one     *)
(* such point to the next. load_all and stop_all are split per loop        *)
(* iteration: they run at startup and shutdown, when no request is served. *)
(***************************************************************************)
\* The plugin directories discover_all finds, in the order it returns them.
Plugins == <<"p1", "p2">>

PluginIds == {Plugins[k] : k \in DOMAIN Plugins}

\* An id no plugin has (an enable or disable request may name any id).
Unknown == "unknown"

\* The number of enable / disable requests issued after startup.
MaxRequests == 2

Range(f) == {f[k] : k \in DOMAIN f}

\* The lists without repetition over a set of ids (what enable / disable maintain).
RECURSIVE ListsOver(_)
ListsOver(S) ==
    {<< >>} \cup UNION {{<<x>> \o l : l \in ListsOver(S \ {x})} : x \in S}

(***************************************************************************)
(* api/plugins/discovery.py                                                *)
(*                                                                         *)
(* The disk is the search paths in order, each a root directory that       *)
(* exists or not, with its items by name. An item is a file, a directory   *)
(* without plugin.json, or a plugin directory, described by what reading   *)
(* its plugin.json gives: a valid manifest (its id) or one of the          *)
(* failures. Items are visited in the order of their names.                *)
(***************************************************************************)
\* The source labels of the search paths, in search order (manager.py).
Roots == <<"bundled", "installed">>

\* The names an item of a root may have, sorted.
DirNames == Plugins

NotADir == "file"
NoManifest == "no_manifest"

\* What reading and validating a plugin.json raises: OSError (unreadable),
\* json.JSONDecodeError, pydantic.ValidationError.
BadManifests == {"OSError", "JSONDecodeError", "ValidationError"}

\* What an item is: see above.
ItemKinds == PluginIds \cup BadManifests \cup {NotADir, NoManifest}

\* A root directory with its items.
RootDirs == [exists : {TRUE}, items : UNION {[D -> ItemKinds] : D \in SUBSET PluginIds}]

NoRoot == [exists |-> FALSE, items |-> << >>]

\* What _load_manifest and discover_single return for None.
NoPlugin == [id |-> None, source |-> None, path |-> << >>]

load_manifest_catches_mut(e) == e \in {"JSONDecodeError", "ValidationError"}

\* The except clauses of _load_manifest: JSONDecodeError, ValidationError, Exception.
load_manifest_catches(e) == e \in BadManifests

\* _load_manifest: the instance, or None if reading or validating raised. A discovered
\* plugin is written with its id; registry_register stores its PluginInstance. An
\* exception that no clause catches leaves discovery: it is written with id "raised".
load_manifest(kind, source, path) ==
    IF kind \in PluginIds THEN [id |-> kind, source |-> source, path |-> path]
    ELSE IF load_manifest_catches(kind) THEN NoPlugin
    ELSE [id |-> "raised", source |-> kind, path |-> path]

\* discover_single: None if the directory has no plugin.json, else _load_manifest.
discover_single(kind, source, path) ==
    IF kind \in {NotADir, NoManifest} THEN NoPlugin
    ELSE load_manifest(kind, source, path)

\* _scan_directory: the plugin directories of a root in sorted order, each loaded,
\* those that gave None left out.
scan_directory(root, source) ==
    LET names == SelectSeq(DirNames, LAMBDA n :
                    /\ n \in DOMAIN root.items
                    /\ root.items[n] # NotADir
                    /\ root.items[n] # NoManifest)
        loaded == [k \in DOMAIN names |->
                      load_manifest(root.items[names[k]], source, <<source, names[k]>>)]
    IN  SelectSeq(loaded, LAMBDA i : i.id # None)

SeenIds(discovered) == {discovered[k].id : k \in DOMAIN discovered}

is_seen_mut(id, discovered) == FALSE

\* `plugin.id in seen_ids`
is_seen(id, discovered) == id \in SeenIds(discovered)

\* The inner loop of discover_all: first found wins.
RECURSIVE append_unseen(_, _)
append_unseen(discovered, plugins) ==
    IF plugins = << >> THEN discovered
    ELSE append_unseen(IF is_seen(Head(plugins).id, discovered)
                       THEN discovered
                       ELSE Append(discovered, Head(plugins)),
                       Tail(plugins))

\* discover_all over the search paths from the k-th on.
RECURSIVE discover_from(_, _, _)
discover_from(d, k, discovered) ==
    IF k > Len(Roots) THEN discovered
    ELSE discover_from(d, k + 1,
            IF ~d[k].exists THEN discovered
            ELSE append_unseen(discovered, scan_directory(d[k], Roots[k])))

discover_all(d) == discover_from(d, 1, << >>)

instance_enabled_mut(plugin) ==
    [PluginInstance(plugin.source) EXCEPT !.path = plugin.path, !.enabled = TRUE]

\* The PluginInstance of a discovered plugin.
InstanceOf(plugin) == [PluginInstance(plugin.source) EXCEPT !.path = plugin.path]

\* PluginRegistry.register: an id already present is overwritten.
registry_register(reg, plugin) ==
    [k \in DOMAIN reg \cup {plugin.id} |->
        IF k = plugin.id THEN InstanceOf(plugin) ELSE reg[k]]

\* `for instance in instances: self.registry.register(instance)`
RECURSIVE register_all(_, _)
register_all(reg, plugins) ==
    IF plugins = << >> THEN reg
    ELSE register_all(registry_register(reg, Head(plugins)), Tail(plugins))

\* The repository as shipped: both plugins under the bundled root, nothing installed.
BundledDisk ==
    <<[exists |-> TRUE, items |-> [p \in PluginIds |-> p]],
      [exists |-> TRUE, items |-> << >>]>>

config_append_mut(list, p) == Append(list, p)

config_keep_mut(list, p) == list

\* PluginConfigService.enable: append unless present.
config_enable(list, p) == IF p \in Range(list) THEN list ELSE Append(list, p)

\* PluginConfigService.disable: remove if present.
config_disable(list, p) == SelectSeq(list, LAMBDA x : x # p)

\* The routers a plugin's register() adds to its PluginAPI (yunzhijia adds one).
RoutersRegistered == 1

\* What the import of a plugin module does under the manager.
ManagerLoadOutcomes == {"ok", "ImportError"}

TaskIds == 0 .. MaxRequests

NewTask == [pc |-> "new", op |-> None, id |-> None, queue |-> << >>,
            failed |-> {}, mountedHere |-> 0]

DoneTask == [NewTask EXCEPT !.pc = "done"]

NoStep == [t |-> 0, op |-> None, id |-> None, activating |-> FALSE,
           finished |-> FALSE, ok |-> FALSE, mountedHere |-> 0, failed |-> {}]

\* Whether a coroutine is inside _activate_plugin (between its load and the end of
\* its start).
InActivation(task) == task.pc = "on_start"

\* Whether what the plugin's code did counts as a failure of one of its own steps.
LoadFails(lo) == lo # "ok"

RegisterFails(ro) == ro = Raises

is_enabled_id_mut(p, ids) == TRUE

\* `instance.id in enabled_ids`
is_enabled_id(p, ids) == p \in Range(ids)

\* _activate_plugin up to its first await: load, PluginAPI, register, mount, and the
\* start up to the on_start hook. status is "failed" (returned False), "started"
\* (returned True, there being no hook) or "on_start" (suspended in the hook).
activate_begin(i, lo, ro) ==
    LET l == lifecycle_load(i, lo)
        r == lifecycle_register(l.inst, "api", ro)
    IN  IF ~l.ret THEN [inst |-> l.inst, status |-> "failed", mount |-> 0]
        ELSE IF ~r.ret THEN [inst |-> r.inst, status |-> "failed", mount |-> 0]
        ELSE IF ~start_guard(r.inst)
        THEN [inst |-> r.inst, status |-> "failed", mount |-> RoutersRegistered]
        ELSE IF hasattr_on_start(r.inst.plugin_object)
        THEN [inst |-> r.inst, status |-> "on_start", mount |-> RoutersRegistered]
        ELSE [inst |-> start_finish(r.inst, FALSE, "ok").inst, status |-> "started",
              mount |-> RoutersRegistered]

\* The effects of a step of task t on plugin p that ran _activate_plugin's first part.
Activated(t, op, p, a, rest, failedBefore, envFailed) ==
    /\ registry' = [registry EXCEPT ![p] = a.inst]
    /\ mounted' = [mounted EXCEPT ![p] = @ + a.mount]
    /\ mtasks' = [mtasks EXCEPT ![t] =
          IF a.status = "on_start"
          THEN [pc |-> "on_start", op |-> op, id |-> p, queue |-> rest,
                failed |-> failedBefore, mountedHere |-> a.mount]
          ELSE IF op = "load_all"
          THEN [pc |-> "iter", op |-> op, id |-> None, queue |-> rest,
                failed |-> failedBefore \cup (IF envFailed THEN {p} ELSE {}),
                mountedHere |-> 0]
          ELSE DoneTask]
    /\ lastStep' = [t |-> t, op |-> op, id |-> p, activating |-> TRUE,
                    finished |-> a.status # "on_start", ok |-> a.status = "started",
                    mountedHere |-> a.mount, failed |-> {}]

\* The host awaits load_all in its startup hook, before it serves any request.
HostStartup == phase = "startup"

\* Requests are served once load_all has returned and until shutdown begins.
HostServing == phase = "serving"

\* The host awaits stop_all in its shutdown hook, once the requests in flight are served.
HostShutdown ==
    /\ phase = "serving"
    /\ \A t \in 1 .. MaxRequests : mtasks[t].pc \in {"new", "done"}

\* load_all, lines 64-70: discovery, registration, the enabled list is read.
LoadAllBegin ==
    /\ HostStartup
    /\ registry' = register_all(registry, discover_all(disk))
    /\ mounted' = [p \in PluginIds |-> 0]
    /\ mtasks' = [mtasks EXCEPT ![0] = [NewTask EXCEPT !.pc = "iter", !.op = "load_all",
                                                        !.queue = Plugins]]
    /\ phase' = "loading"
    /\ lastStep' = [NoStep EXCEPT !.op = "load_all_begin"]
    /\ UNCHANGED <<enabledList, lifecycleVars, discoveryVars, mapperVars, handlerVars,
                    streamVars, legacyVars>>

\* load_all, lines 71-75: a plugin that is not enabled is skipped.
LoadAllSkip ==
    /\ phase = "loading"
    /\ mtasks[0].pc = "iter"
    /\ mtasks[0].queue # << >>
    /\ LET p == Head(mtasks[0].queue) IN
        /\ ~is_enabled_id(p, enabledList)
        /\ registry' = [registry EXCEPT ![p].enabled = FALSE]
        /\ mtasks' = [mtasks EXCEPT ![0].queue = Tail(@)]
        /\ lastStep' = [NoStep EXCEPT !.op = "load_all", !.id = p]
    /\ UNCHANGED <<enabledList, mounted, phase,
                   lifecycleVars, discoveryVars, mapperVars, handlerVars,
                   streamVars, legacyVars>>

\* load_all, lines 71-77: an enabled plugin is activated.
LoadAllActivate ==
    /\ phase = "loading"
    /\ mtasks[0].pc = "iter"
    /\ mtasks[0].queue # << >>
    /\ LET p == Head(mtasks[0].queue) IN
        /\ is_enabled_id(p, enabledList)
        /\ \E lo \in ManagerLoadOutcomes, ro \in RegisterOutcomes :
              Activated(0, "load_all", p,
                        activate_begin([registry[p] EXCEPT !.enabled = TRUE], lo, ro),
                        Tail(mtasks[0].queue), mtasks[0].failed,
                        LoadFails(lo) \/ RegisterFails(ro))
    /\ UNCHANGED <<enabledList, phase, lifecycleVars, discoveryVars, mapperVars, handlerVars,
                    streamVars, legacyVars>>

\* The on_start hook returns or raises: the rest of lifecycle.start and of
\* _activate_plugin, then the caller goes on.
StartResume(t) ==
    /\ mtasks[t].pc = "on_start"
    /\ \E ho \in HookOutcomes :
        LET p == mtasks[t].id
            r == start_finish(registry[p], TRUE, ho)
        IN  /\ registry' = [registry EXCEPT ![p] = r.inst]
            /\ mtasks' = [mtasks EXCEPT ![t] =
                  IF mtasks[t].op = "load_all"
                  THEN [@ EXCEPT !.pc = "iter", !.id = None, !.mountedHere = 0,
                                 !.failed = @ \cup (IF ho = "raise" THEN {p} ELSE {})]
                  ELSE DoneTask]
            /\ lastStep' = [t |-> t, op |-> mtasks[t].op, id |-> p, activating |-> TRUE,
                            finished |-> TRUE, ok |-> r.ret,
                            mountedHere |-> mtasks[t].mountedHere, failed |-> {}]
    /\ UNCHANGED <<enabledList, mounted, phase,
                   lifecycleVars, discoveryVars, mapperVars, handlerVars,
                   streamVars, legacyVars>>

\* load_all, lines 79-83: the loop is over; the host starts serving requests.
LoadAllEnd ==
    /\ phase = "loading"
    /\ mtasks[0].pc = "iter"
    /\ mtasks[0].queue = << >>
    /\ mtasks' = [mtasks EXCEPT ![0] = DoneTask]
    /\ phase' = "serving"
    /\ lastStep' = [NoStep EXCEPT !.op = "load_all_end", !.failed = mtasks[0].failed]
    /\ UNCHANGED <<registry, enabledList, mounted,
                   lifecycleVars, discoveryVars, mapperVars, handlerVars,
                   streamVars, legacyVars>>

\* The next request takes the first unused task.
NextRequest(t) ==
    /\ HostServing
    /\ t \in 1 .. MaxRequests
    /\ mtasks[t].pc = "new"
    /\ \A u \in 1 .. (t - 1) : mtasks[u].pc # "new"

\* enable_plugin of an id the registry does not hold: returns None (404).
EnableUnknown(t) ==
    /\ NextRequest(t)
    /\ Unknown \notin DOMAIN registry
    /\ mtasks' = [mtasks EXCEPT ![t] = DoneTask]
    /\ lastStep' = [NoStep EXCEPT !.t = t, !.op = "enable", !.id = Unknown]
    /\ UNCHANGED <<registry, enabledList, mounted, phase,
                   lifecycleVars, discoveryVars, mapperVars, handlerVars,
                   streamVars, legacyVars>>

\* enable_plugin of a plugin that is STARTED: the list and the flag are set, no more.
EnableStarted(t, p) ==
    /\ NextRequest(t)
    /\ p \in DOMAIN registry
    /\ registry[p].state = STARTED
    /\ enabledList' = config_enable(enabledList, p)
    /\ registry' = [registry EXCEPT ![p].enabled = TRUE]
    /\ mtasks' = [mtasks EXCEPT ![t] = DoneTask]
    /\ lastStep' = [NoStep EXCEPT !.t = t, !.op = "enable", !.id = p]
    /\ UNCHANGED <<mounted, phase, lifecycleVars, discoveryVars, mapperVars, handlerVars,
                    streamVars, legacyVars>>

\* enable_plugin of a plugin in any other state: the list and the flag are set and the
\* plugin is activated.
EnableActivate(t, p) ==
    /\ NextRequest(t)
    /\ p \in DOMAIN registry
    /\ registry[p].state # STARTED
    /\ enabledList' = config_enable(enabledList, p)
    /\ \E lo \in ManagerLoadOutcomes, ro \in RegisterOutcomes :
          Activated(t, "enable", p,
                    activate_begin([registry[p] EXCEPT !.enabled = TRUE], lo, ro),
                    << >>, {}, FALSE)
    /\ UNCHANGED <<phase, lifecycleVars, discoveryVars, mapperVars, handlerVars,
                    streamVars, legacyVars>>

\* disable_plugin of an id the registry does not hold: returns None (404).
DisableUnknown(t) ==
    /\ NextRequest(t)
    /\ Unknown \notin DOMAIN registry
    /\ mtasks' = [mtasks EXCEPT ![t] = DoneTask]
    /\ lastStep' = [NoStep EXCEPT !.t = t, !.op = "disable", !.id = Unknown]
    /\ UNCHANGED <<registry, enabledList, mounted, phase,
                   lifecycleVars, discoveryVars, mapperVars, handlerVars,
                   streamVars, legacyVars>>

\* disable_plugin: the list and the flag are cleared; a STARTED plugin is stopped, which
\* suspends in its on_stop hook if it has one.
Disable(t, p) ==
    /\ NextRequest(t)
    /\ p \in DOMAIN registry
    /\ enabledList' = config_disable(enabledList, p)
    /\ LET i == [registry[p] EXCEPT !.enabled = FALSE]
           suspends == ~stop_guard(i) /\ hasattr_on_stop(i.plugin_object)
       IN  /\ registry' = [registry EXCEPT ![p] =
                              IF suspends THEN i ELSE lifecycle_stop(i, "ok").inst]
           /\ mtasks' = [mtasks EXCEPT ![t] =
                 IF suspends
                 THEN [NewTask EXCEPT !.pc = "on_stop", !.op = "disable", !.id = p]
                 ELSE DoneTask]
    /\ lastStep' = [NoStep EXCEPT !.t = t, !.op = "disable", !.id = p]
    /\ UNCHANGED <<mounted, phase, lifecycleVars, discoveryVars, mapperVars, handlerVars,
                    streamVars, legacyVars>>

\* The on_stop hook returns or raises: the rest of lifecycle.stop, then the caller goes on.
StopResume(t) ==
    /\ mtasks[t].pc = "on_stop"
    /\ \E ho \in HookOutcomes :
        LET p == mtasks[t].id
            r == stop_finish(registry[p], TRUE, ho)
        IN  /\ registry' = [registry EXCEPT ![p] = r.inst]
            /\ mtasks' = [mtasks EXCEPT ![t] =
                  IF mtasks[t].op = "stop_all"
                  THEN [@ EXCEPT !.pc = "iter", !.id = None]
                  ELSE DoneTask]
            /\ lastStep' = [NoStep EXCEPT !.t = t, !.op = mtasks[t].op, !.id = p]
    /\ UNCHANGED <<enabledList, mounted, phase,
                   lifecycleVars, discoveryVars, mapperVars, handlerVars,
                   streamVars, legacyVars>>

\* registry.get_started(), in the registry's order.
get_started == SelectSeq(Plugins, LAMBDA p : registry[p].state = STARTED)

\* stop_all at shutdown, once the requests in flight have been served: the list of
\* started plugins is taken.
StopAllBegin ==
    /\ HostShutdown
    /\ mtasks' = [mtasks EXCEPT ![0] = [NewTask EXCEPT !.pc = "iter", !.op = "stop_all",
                                                        !.queue = get_started]]
    /\ phase' = "stopping"
    /\ lastStep' = [NoStep EXCEPT !.op = "stop_all_begin"]
    /\ UNCHANGED <<registry, enabledList, mounted,
                   lifecycleVars, discoveryVars, mapperVars, handlerVars,
                   streamVars, legacyVars>>

\* stop_all: lifecycle.stop of the next plugin of the list.
StopAllIter ==
    /\ phase = "stopping"
    /\ mtasks[0].pc = "iter"
    /\ mtasks[0].queue # << >>
    /\ LET p == Head(mtasks[0].queue)
           i == registry[p]
           suspends == ~stop_guard(i) /\ hasattr_on_stop(i.plugin_object)
       IN  /\ registry' = [registry EXCEPT ![p] =
                              IF suspends THEN i ELSE lifecycle_stop(i, "ok").inst]
           /\ mtasks' = [mtasks EXCEPT ![0] =
                 [@ EXCEPT !.pc = IF suspends THEN "on_stop" ELSE "iter",
                           !.id = IF suspends THEN p ELSE None,
                           !.queue = Tail(@)]]
           /\ lastStep' = [NoStep EXCEPT !.op = "stop_all", !.id = p]
    /\ UNCHANGED <<enabledList, mounted, phase,
                   lifecycleVars, discoveryVars, mapperVars, handlerVars,
                   streamVars, legacyVars>>

\* stop_all: the loop is over.
StopAllEnd ==
    /\ phase = "stopping"
    /\ mtasks[0].pc = "iter"
    /\ mtasks[0].queue = << >>
    /\ mtasks' = [mtasks EXCEPT ![0] = DoneTask]
    /\ phase' = "stopped"
    /\ lastStep' = [NoStep EXCEPT !.op = "stop_all_end"]
    /\ UNCHANGED <<registry, enabledList, mounted,
                   lifecycleVars, discoveryVars, mapperVars, handlerVars,
                   streamVars, legacyVars>>

\* The manager as constructed: an empty registry, the enabled list as persisted.
InitManager ==
    /\ registry = << >>
    /\ enabledList \in ListsOver(PluginIds)
    /\ mounted = << >>
    /\ mtasks = [t \in TaskIds |-> NewTask]
    /\ phase = "startup"
    /\ lastStep = NoStep
    /\ disk = BundledDisk
    /\ lastDisc = << >>
    /\ IdleLifecycle
    /\ IdleMapper
    /\ IdleHandler
    /\ IdleStream
    /\ IdleLegacy

NextManager ==
    \/ LoadAllBegin
    \/ LoadAllSkip
    \/ LoadAllActivate
    \/ LoadAllEnd
    \/ \E t \in TaskIds : StartResume(t)
    \/ \E t \in TaskIds : StopResume(t)
    \/ \E t \in TaskIds : EnableUnknown(t)
    \/ \E t \in TaskIds : DisableUnknown(t)
    \/ \E t \in TaskIds, p \in PluginIds : EnableStarted(t, p)
    \/ \E t \in TaskIds, p \in PluginIds : EnableActivate(t, p)
    \/ \E t \in TaskIds, p \in PluginIds : Disable(t, p)
    \/ StopAllBegin
    \/ StopAllIter
    \/ StopAllEnd

SpecManager == InitManager /\ [][NextManager]_vars

(***************************************************************************)
(* SpecDiscovery: load_all and install_plugin called one after the other   *)
(* by one caller, over any small disk. With no other coroutine on the      *)
(* loop, a call of load_all runs from its start to its return, the plugin  *)
(* hooks included.                                                         *)
(***************************************************************************)
\* The number of items on the disk at the start.
MaxItems == 2

\* The number of calls of load_all and install_plugin.
MaxCalls == 2

ItemCount(d) == Cardinality(DOMAIN d[1].items) + Cardinality(DOMAIN d[2].items)

\* What the code of one plugin does during an activation (the import, register(api)
\* and the on_start hook), for the plugins of this specification: one that starts, one
\* whose import fails, one whose on_start hook raises.
ActivationOutcomes ==
    {[lo |-> "ok", ro |-> NoObject, ho |-> "ok"],
     [lo |-> "ImportError", ro |-> NoObject, ho |-> "ok"],
     [lo |-> "ok", ro |-> [kind |-> "object", on_start |-> TRUE, on_stop |-> FALSE],
      ho |-> "raise"]}

\* _activate_plugin from its start to its return.
activate_plugin(i, o) ==
    LET a == activate_begin(i, o.lo, o.ro) IN
    IF a.status = "on_start"
    THEN [inst |-> start_finish(a.inst, TRUE, o.ho).inst, mount |-> a.mount]
    ELSE [inst |-> a.inst, mount |-> a.mount]

\* One iteration of the loop of load_all on the instance of id p.
load_all_iter(i, p, ids, o) ==
    IF is_enabled_id(p, ids)
    THEN activate_plugin([i EXCEPT !.enabled = TRUE], o)
    ELSE [inst |-> [i EXCEPT !.enabled = FALSE], mount |-> 0]

\* Whether an exception left discover_all.
Raised(found) == \E k \in DOMAIN found : found[k].id = "raised"

\* A plugin that starts and has no hook.
PlainPlugin == [lo |-> "ok", ro |-> NoObject, ho |-> "ok"]

NoPrev == [op |-> None, arg |-> None, oc |-> PlainPlugin]

NoDisc == [n |-> 0, op |-> None, arg |-> None, ret |-> None, raised |-> FALSE,
           oc |-> PlainPlugin, prev |-> NoPrev,
           found |-> << >>, registered |-> << >>, pre |-> << >>, preList |-> << >>,
           preDisk |-> << >>, preMounted |-> << >>]

\* load_all: discovery, registration, then every registered instance in turn.
LoadAll ==
    /\ lastDisc.n < MaxCalls
    /\ LET found == discover_all(disk)
           registered == register_all(registry, found)
       IN  /\ \E oc \in [DOMAIN registered -> ActivationOutcomes] :
                LET done == [p \in DOMAIN registered |->
                               load_all_iter(registered[p], p, enabledList, oc[p])]
                IN  /\ registry' = IF Raised(found) THEN registry
                                   ELSE [p \in DOMAIN registered |-> done[p].inst]
                    /\ mounted' = IF Raised(found) THEN mounted
                                  ELSE [p \in PluginIds |->
                                          IF p \in DOMAIN registered
                                          THEN mounted[p] + done[p].mount
                                          ELSE mounted[p]]
           /\ lastDisc' = [NoDisc EXCEPT !.n = lastDisc.n + 1, !.op = "load_all",
                                         !.raised = Raised(found),
                                         !.found = found, !.registered = registered,
                                         !.pre = registry, !.preList = enabledList,
                                         !.preDisk = disk, !.preMounted = mounted]
    /\ UNCHANGED <<disk, enabledList, mtasks, phase, lastStep,
                   lifecycleVars, mapperVars, handlerVars, streamVars, legacyVars>>

registry_has_mut(reg, id) == FALSE

\* PluginRegistry.has
registry_has(reg, id) == id \in DOMAIN reg

\* install_plugin of a source directory that is `kind`: the disk and the registry after
\* the call and the instance returned, written by its id (None for None).
install_plugin(d, reg, kind) ==
    LET instance == discover_single(kind, "installed", <<"source">>)
        dest == <<"installed", instance.id>>
        copied == [d EXCEPT ![2] = [exists |-> TRUE,
                      items |-> [n \in DOMAIN d[2].items \cup {instance.id} |->
                                   IF n = instance.id THEN kind ELSE d[2].items[n]]]]
        again == discover_single(kind, "installed", dest)
    IN  IF instance.id = None THEN [disk |-> d, registry |-> reg, ret |-> None]
        ELSE IF registry_has(reg, instance.id)
        THEN [disk |-> d, registry |-> reg, ret |-> None]
        ELSE IF instance.id \in DOMAIN d[2].items
        THEN [disk |-> d, registry |-> reg, ret |-> None]
        ELSE [disk |-> copied, registry |-> registry_register(reg, again),
              ret |-> again.id]

\* install_plugin of some source directory.
Install ==
    /\ lastDisc.n < MaxCalls
    /\ \E kind \in ItemKinds \ {NotADir} :
          LET r == install_plugin(disk, registry, kind) IN
          /\ disk' = r.disk
          /\ registry' = r.registry
          /\ lastDisc' = [NoDisc EXCEPT !.n = lastDisc.n + 1, !.op = "install",
                                        !.arg = kind, !.ret = r.ret,
                                        !.pre = registry, !.preList = enabledList,
                                        !.preDisk = disk, !.preMounted = mounted]
    /\ UNCHANGED <<enabledList, mounted, mtasks, phase, lastStep,
                   lifecycleVars, mapperVars, handlerVars, streamVars, legacyVars>>

InitDiscovery ==
    /\ disk \in [DOMAIN Roots -> RootDirs \cup {NoRoot}]
    /\ ItemCount(disk) <= MaxItems
    /\ registry = << >>
    /\ enabledList \in ListsOver(PluginIds)
    /\ mounted = [p \in PluginIds |-> 0]
    /\ mtasks = << >>
    /\ phase = "off"
    /\ lastStep = << >>
    /\ lastDisc = NoDisc
    /\ IdleLifecycle
    /\ IdleMapper
    /\ IdleHandler
    /\ IdleStream
    /\ IdleLegacy

NextDiscovery == LoadAll \/ Install

SpecDiscovery == InitDiscovery /\ [][NextDiscovery]_vars

(***************************************************************************)
(* SpecToggle: load_all, enable_plugin and disable_plugin called one after *)
(* the other by one caller, each running to its return, over the           *)
(* repository's own plugins.                                               *)
(***************************************************************************)
\* The number of calls of load_all, enable_plugin and disable_plugin.
MaxToggles == 3

\* What the code of the plugin does when it is activated or stopped: as in
\* SpecDiscovery, and a plugin with an on_stop hook, which returns or raises.
ToggleOutcomes ==
    ActivationOutcomes \cup
    {[lo |-> "ok", ro |-> [kind |-> "object", on_start |-> FALSE, on_stop |-> TRUE],
      ho |-> h] : h \in HookOutcomes}

\* enable_plugin from its start to its return: the registry, the enabled list and the
\* mounted routers after the call, and whether it returned an instance.
enable_plugin(reg, list, mnt, p, o) ==
    IF p \notin DOMAIN reg
    THEN [registry |-> reg, enabledList |-> list, mounted |-> mnt, ret |-> FALSE]
    ELSE LET i == [reg[p] EXCEPT !.enabled = TRUE]
             a == IF i.state = STARTED THEN [inst |-> i, mount |-> 0]
                  ELSE activate_plugin(i, o)
         IN  [registry |-> [reg EXCEPT ![p] = a.inst],
              enabledList |-> config_enable(list, p),
              mounted |-> [mnt EXCEPT ![p] = @ + a.mount],
              ret |-> TRUE]

\* disable_plugin from its start to its return.
disable_plugin(reg, list, mnt, p, o) ==
    IF p \notin DOMAIN reg
    THEN [registry |-> reg, enabledList |-> list, mounted |-> mnt, ret |-> FALSE]
    ELSE LET i == [reg[p] EXCEPT !.enabled = FALSE] IN
         [registry |-> [reg EXCEPT ![p] = lifecycle_stop(i, o.ho).inst],
          enabledList |-> config_disable(list, p),
          mounted |-> mnt,
          ret |-> TRUE]

\* The effects of a call of enable_plugin or disable_plugin that did r.
Toggled(op, p, o, r) ==
    /\ registry' = r.registry
    /\ enabledList' = r.enabledList
    /\ mounted' = r.mounted
    /\ lastDisc' = [NoDisc EXCEPT
          !.n = lastDisc.n + 1, !.op = op, !.arg = p, !.oc = o, !.ret = r.ret,
          !.prev = [op |-> lastDisc.op, arg |-> lastDisc.arg, oc |-> lastDisc.oc],
          !.pre = registry, !.preList = enabledList, !.preDisk = disk,
          !.preMounted = mounted]
    /\ UNCHANGED <<disk, mtasks, phase, lastStep, lifecycleVars, mapperVars, handlerVars,
                    streamVars, legacyVars>>

Enable ==
    /\ lastDisc.n < MaxToggles
    /\ \E p \in PluginIds \cup {Unknown}, o \in ToggleOutcomes :
          Toggled("enable", p, o, enable_plugin(registry, enabledList, mounted, p, o))

DisableCall ==
    /\ lastDisc.n < MaxToggles
    /\ \E p \in PluginIds \cup {Unknown}, h \in HookOutcomes :
          LET o == [PlainPlugin EXCEPT !.ho = h] IN
          Toggled("disable", p, o, disable_plugin(registry, enabledList, mounted, p, o))

InitToggle ==
    /\ disk = BundledDisk
    /\ registry = << >>
    /\ enabledList \in ListsOver(PluginIds)
    /\ mounted = [p \in PluginIds |-> 0]
    /\ mtasks = << >>
    /\ phase = "off"
    /\ lastStep = << >>
    /\ lastDisc = NoDisc
    /\ IdleLifecycle
    /\ IdleMapper
    /\ IdleHandler
    /\ IdleStream
    /\ IdleLegacy

NextToggle == LoadAll \/ Enable \/ DisableCall

SpecToggle == InitToggle /\ [][NextToggle]_vars

(***************************************************************************)
(* api/plugins/session_mapper.py                                           *)
(*                                                                         *)
(* time.time() is the clock `now`, in whole seconds. Each operator takes   *)
(* the map (and the clock) and returns the map after the call and the      *)
(* value returned.                                                         *)
(***************************************************************************)
\* The session timeout the mapper is constructed with (timeout_seconds), in ticks.
Timeout == 1

\* The clock stops here.
MaxTime == 3

ExternalIds == {"x1", "x2"}

AgentIds == {"a1", "a2"}

\* Values of pending_questions: None, an empty list, or a list of questions.
EmptyList == "[]"

Questions == {EmptyList, "q1", "q2"}

SessionInfo(a, t) == [agent_session_id |-> a, last_active |-> t, pending_questions |-> None]

\* Python's truth value of a pending_questions value (`if questions:`).
Truthy(q) == q # None /\ q # EmptyList

\* A function without the key x (`del d[x]`).
Del(m, x) == [k \in DOMAIN m \ {x} |-> m[k]]

\* A function with x set to v (`d[x] = v`).
Put(m, x, v) == [k \in DOMAIN m \cup {x} |-> IF k = x THEN v ELSE m[k]]

expired_mut(info, t) == (t - info.last_active) >= Timeout

\* `elapsed > self.timeout_seconds`
expired(info, t) == (t - info.last_active) > Timeout

get_or_create(m, x, t) ==
    IF x \notin DOMAIN m THEN [map |-> m, ret |-> None, arg |-> None]
    ELSE IF expired(m[x], t) THEN [map |-> Del(m, x), ret |-> None, arg |-> None]
    ELSE [map |-> m, ret |-> m[x].agent_session_id, arg |-> None]

update_activity_mut(m, x, a, t) ==
    [map |-> Put(m, x, SessionInfo(a, 0)), ret |-> None, arg |-> a]

update_activity(m, x, a, t) ==
    [map |-> Put(m, x, SessionInfo(a, t)), ret |-> None, arg |-> a]

set_pending_questions(m, x, q) ==
    [map |-> IF x \in DOMAIN m THEN [m EXCEPT ![x].pending_questions = q] ELSE m,
     ret |-> None, arg |-> q]

get_and_clear_pending_questions(m, x) ==
    IF x \notin DOMAIN m THEN [map |-> m, ret |-> None, arg |-> None]
    ELSE [map |-> IF Truthy(m[x].pending_questions)
                  THEN [m EXCEPT ![x].pending_questions = None]
                  ELSE m,
          ret |-> m[x].pending_questions, arg |-> None]

\* The orders in which the items of a dict may be visited.
KeyOrders(m) == {o \in ListsOver(DOMAIN m) : Len(o) = Cardinality(DOMAIN m)}

\* `for sid in expired: del self.session_map[sid]`
RECURSIVE delete_all(_, _)
delete_all(m, sids) ==
    IF sids = << >> THEN m ELSE delete_all(Del(m, Head(sids)), Tail(sids))

cleanup_first_mut(m, t, order) ==
    LET sids == SelectSeq(order, LAMBDA sid : expired(m[sid], t))
    IN  [map |-> IF sids = << >> THEN m ELSE Del(m, Head(sids)), ret |-> None,
         arg |-> None]

\* cleanup_expired when the items of session_map are visited in `order`: the expired
\* ids are collected first, then deleted one by one.
cleanup_expired_in(m, t, order) ==
    LET sids == SelectSeq(order, LAMBDA sid : expired(m[sid], t))
    IN  [map |-> delete_all(m, sids), ret |-> None, arg |-> None]

cleanup_expired(m, t) == cleanup_expired_in(m, t, CHOOSE o \in KeyOrders(m) : TRUE)

(***************************************************************************)
(* SpecMapper: the mapper's operations in any order, as time passes.       *)
(***************************************************************************)
\* A call of `op` on external id x that did r; r.arg is the value it was given (the
\* agent session id, the questions), None when it takes none.
MapperCall(op, x, r) ==
    /\ session_map' = r.map
    /\ lastOp' = [op |-> op, x |-> x, arg |-> r.arg, ret |-> r.ret, at |-> now,
                  pre |-> session_map]
    /\ UNCHANGED <<now, lifecycleVars, discoveryVars, managerVars, handlerVars,
                    streamVars, legacyVars>>

GetOrCreate ==
    /\ \E x \in ExternalIds : MapperCall("get_or_create", x, get_or_create(session_map, x, now))
    /\ UNCHANGED updates

UpdateActivity ==
    \E x \in ExternalIds, a \in AgentIds :
        /\ MapperCall("update_activity", x, update_activity(session_map, x, a, now))
        /\ updates' = Put(updates, x, [a |-> a, t0 |-> now])

SetPendingQuestions ==
    /\ \E x \in ExternalIds, q \in Questions :
          MapperCall("set_pending_questions", x, set_pending_questions(session_map, x, q))
    /\ UNCHANGED updates

GetAndClearPendingQuestions ==
    /\ \E x \in ExternalIds :
          MapperCall("get_and_clear_pending_questions", x,
                     get_and_clear_pending_questions(session_map, x))
    /\ UNCHANGED updates

CleanupExpired ==
    /\ \E order \in KeyOrders(session_map) :
          MapperCall("cleanup_expired", None, cleanup_expired_in(session_map, now, order))
    /\ UNCHANGED updates

Tick ==
    /\ now < MaxTime
    /\ now' = now + 1
    /\ UNCHANGED <<session_map, lastOp, updates,
                   lifecycleVars, discoveryVars, managerVars, handlerVars,
                   streamVars, legacyVars>>

NoOp == [op |-> None, x |-> None, arg |-> None, ret |-> None, at |-> 0, pre |-> << >>]

InitMapper ==
    /\ now = 0
    /\ session_map = << >>
    /\ lastOp = NoOp
    /\ updates = << >>
    /\ IdleLifecycle
    /\ IdleManager
    /\ IdleDiscovery
    /\ IdleHandler
    /\ IdleStream
    /\ IdleLegacy

NextMapper ==
    \/ GetOrCreate
    \/ UpdateActivity
    \/ SetPendingQuestions
    \/ GetAndClearPendingQuestions
    \/ CleanupExpired
    \/ Tick

SpecMapper == InitMapper /\ [][NextMapper]_vars

(***************************************************************************)
(* api/handlers/yunzhijia/session_mapper.py: the SessionMapper the plugin  *)
(* mapper was extracted from. Its SessionInfo has no pending_questions.    *)
(* SpecEquiv runs it side by side with PluginSessionMapper: every call is  *)
(* made on both, at the same time.                                         *)
(***************************************************************************)
LegacySessionInfo(a, t) == [agent_session_id |-> a, last_active |-> t]

\* `elapsed > self.timeout_seconds`
legacy_expired(info, t) == (t - info.last_active) > Timeout

legacy_get_or_create(m, x, t) ==
    IF x \notin DOMAIN m THEN [map |-> m, ret |-> None]
    ELSE IF legacy_expired(m[x], t) THEN [map |-> Del(m, x), ret |-> None]
    ELSE [map |-> m, ret |-> m[x].agent_session_id]

legacy_update_activity(m, x, a, t) ==
    [map |-> Put(m, x, LegacySessionInfo(a, t)), ret |-> None]

\* cleanup_expired when the items of session_map are visited in `order`.
legacy_cleanup_expired_in(m, t, order) ==
    LET expired_sessions == SelectSeq(order, LAMBDA sid : legacy_expired(m[sid], t))
    IN  [map |-> delete_all(m, expired_sessions), ret |-> None]

\* A call of `op` on external id x that did r on the plugin mapper and l on the legacy
\* mapper.
EquivCall(op, x, r, l) ==
    /\ session_map' = r.map
    /\ lastOp' = [op |-> op, x |-> x, arg |-> r.arg, ret |-> r.ret, at |-> now,
                  pre |-> session_map]
    /\ legacy' = l
    /\ UNCHANGED <<now, lifecycleVars, discoveryVars, managerVars, handlerVars,
                   streamVars>>

EquivGetOrCreate ==
    /\ \E x \in ExternalIds :
          EquivCall("get_or_create", x, get_or_create(session_map, x, now),
                    legacy_get_or_create(legacy.map, x, now))
    /\ UNCHANGED updates

EquivUpdateActivity ==
    \E x \in ExternalIds, a \in AgentIds :
        /\ EquivCall("update_activity", x, update_activity(session_map, x, a, now),
                     legacy_update_activity(legacy.map, x, a, now))
        /\ updates' = Put(updates, x, [a |-> a, t0 |-> now])

\* The two dicts are visited each in its own order.
EquivCleanupExpired ==
    /\ \E order \in KeyOrders(session_map), legacy_order \in KeyOrders(legacy.map) :
          EquivCall("cleanup_expired", None,
                    cleanup_expired_in(session_map, now, order),
                    legacy_cleanup_expired_in(legacy.map, now, legacy_order))
    /\ UNCHANGED updates

EquivTick ==
    /\ now < MaxTime
    /\ now' = now + 1
    /\ UNCHANGED <<session_map, lastOp, updates, lifecycleVars, discoveryVars,
                   managerVars, handlerVars, streamVars, legacyVars>>

InitEquiv ==
    /\ now = 0
    /\ session_map = << >>
    /\ lastOp = NoOp
    /\ updates = << >>
    /\ legacy = [map |-> << >>, ret |-> None]
    /\ IdleLifecycle
    /\ IdleManager
    /\ IdleDiscovery
    /\ IdleHandler
    /\ IdleStream

NextEquiv ==
    \/ EquivGetOrCreate
    \/ EquivUpdateActivity
    \/ EquivCleanupExpired
    \/ EquivTick

SpecEquiv == InitEquiv /\ [][NextEquiv]_vars

(***************************************************************************)
(* plugins/bundled/yunzhijia/handler.py, message_sender.py,                *)
(* card_builder.py, plugin.py; api/utils/image_utils.py                    *)
(*                                                                         *)
(* yzj_chat hands every webhook to its own background task running         *)
(* process_message. A task gives up the event loop when it waits for the   *)
(* next event of the agent stream, for an outbound send and for            *)
(* session_service.interrupt. Between the sends of one task and its next   *)
(* read of the stream it touches nothing the tasks share, so each action   *)
(* below runs a task from one read of the stream to the next, its sends    *)
(* included; what a task sent is kept with the task, in order.             *)
(***************************************************************************)
\* The number of process_message tasks side by side.
MaxTasks == 2

\* The number of outbound messages one turn sends for questions.
MaxQuestionsSent == 2

\* The number of images embedded in one piece of content.
MaxImages == 2

\* The number of assistant_message events of one stream.
MaxAssistant == 1

\* The number of tagged or untagged segments of one assistant message.
MaxSegments == 2

\* The sends of one step whose outcome is chosen; the sends after them succeed.
MaxOutcomes == 2

\* YunzhijiaHandler.MAX_STOP_COMMAND_LENGTH
MAX_STOP_COMMAND_LENGTH == 10

\* The default of max_img_per_card.
max_img_per_card_default == 3

MessageKinds == {"faq", "stop", "query"}

\* The sequences over S of length at most n.
SeqsUpTo(S, n) == UNION {[1 .. k -> S] : k \in 0 .. n}

HTaskIds == 1 .. MaxTasks

(***************************************************************************)
(* Inbound text. A text is described by what the handler looks at: whether *)
(* it carries an @mention, whether it is written in upper case, the length *)
(* of what is left without the mention, and what that holds once lowered:  *)
(* one of STOP_KEYWORDS somewhere, exactly a key of FAQ_MAP, or neither.   *)
(* No key of FAQ_MAP holds a stop keyword, and the longest key has         *)
(* MAX_STOP_COMMAND_LENGTH characters.                                     *)
(***************************************************************************)
Contents ==
    {c \in [mention : BOOLEAN, upper : BOOLEAN,
            len : {MAX_STOP_COMMAND_LENGTH, MAX_STOP_COMMAND_LENGTH + 1},
            has : {"keyword", "faq_key", "none"}] :
        c.has = "faq_key" => c.len <= MAX_STOP_COMMAND_LENGTH}

\* One text for each way process_message goes.
PlainContents == {c \in Contents : ~c.mention /\ ~c.upper /\ c.len = MAX_STOP_COMMAND_LENGTH}

NoContent == [mention |-> FALSE, upper |-> FALSE, len |-> 0, has |-> "none"]

\* _clean_content: the @mention is cut out and the rest stripped.
clean_content(c) == [upper |-> c.upper, len |-> c.len, has |-> c.has]

\* str.lower()
lower(s) == [s EXCEPT !.upper = FALSE]

\* `keyword in cleaned_lower` for some keyword: the keywords are in lower case.
contains_keyword(s) == s.has = "keyword" /\ ~s.upper

\* `cleaned.lower() == faq_key.lower()` for some key.
equals_faq_key(s) == s.has = "faq_key" /\ ~s.upper

is_stop_command_mut(c) ==
    LET cleaned == clean_content(c)
    IN  IF cleaned.len >= MAX_STOP_COMMAND_LENGTH THEN FALSE
        ELSE contains_keyword(lower(cleaned))

is_stop_command(c) ==
    LET cleaned == clean_content(c)
    IN  IF cleaned.len > MAX_STOP_COMMAND_LENGTH THEN FALSE
        ELSE contains_keyword(lower(cleaned))

match_faq_mut(c) == equals_faq_key(clean_content(c))

\* _match_faq: whether a canned answer is returned.
match_faq(c) == equals_faq_key(lower(clean_content(c)))

\* A text that is nothing but a mention: nothing is left of it once cleaned.
MentionOnly == [mention |-> TRUE, upper |-> FALSE, len |-> 0, has |-> "none"]

\* QueryRequest's validation of `prompt` (min_length=1, not blank): whether the
\* request is built; otherwise its constructor raises.
valid_prompt(s) == s.len >= 1

(***************************************************************************)
(* Content of the agent: a sequence of segments, each inside <ask> tags,   *)
(* inside <reply> tags or outside any tag ("none"), with its text as       *)
(* stripped ("" when only blanks) and the paths of its markdown images: a  *)
(* full URL, a relative path through assets/, or another relative path.    *)
(* The empty sequence is the empty string (or a missing field).            *)
(***************************************************************************)
Tags == {"ask", "reply", "none"}

ImagePaths == {"http", "asset", "other"}

SegmentsOver(tags, texts, images) == [tag : tags, text : texts, images : images]

\* The handler's configuration: config.get(...) of the plugin, the environment of the
\* translator in api/handlers.
Configs ==
    [card_template_id : {"", "tpl"}, max_img_per_card : {1, max_img_per_card_default},
     verbose : BOOLEAN]

DefaultConfig ==
    [card_template_id |-> "", max_img_per_card |-> max_img_per_card_default,
     verbose |-> FALSE]

\* What a POST to the platform does.
SendOutcomes == {"200", "non200", "exception"}

\* An outbound message: which one it is, the content it carries, a detail of its text,
\* the image URLs of a card, and what became of its POST.
Msg(kind, body, detail, urls) ==
    [kind |-> kind, body |-> body, detail |-> detail, urls |-> urls, status |-> None]

Notice(kind) == Msg(kind, << >>, "", << >>)

NoResult == [seen |-> FALSE, content |-> << >>]

NewHTask == [pc |-> "new", x |-> None, kind |-> None, session_id |-> None,
             agent_session_id |-> None, message_count |-> 0,
             has_sent_question |-> FALSE, closing |-> FALSE, created |-> FALSE,
             sent |-> << >>, interrupted |-> << >>,
             content |-> NoContent, config |-> DefaultConfig, asked |-> << >>,
             assistant |-> << >>, result |-> NoResult, reply_buffer |-> << >>,
             raised |-> FALSE]

\* A task that has returned, with what it sent and what it interrupted.
Finished(task) == [task EXCEPT !.pc = "done"]

\* The tasks after task t went on as `task`.
Scheduled(t, task) == htasks' = [htasks EXCEPT ![t] = task]

(***************************************************************************)
(* message_sender.py. The sends of one step are threaded through a record: *)
(* what the task has sent, whether an exception is on its way out of the   *)
(* sender, and the number of the next POST of the step. `outs` gives the   *)
(* outcome of the first MaxOutcomes POSTs of the step.                     *)
(***************************************************************************)
Sender(task) == [sent |-> task.sent, raised |-> FALSE, n |-> 1]

OutcomesOver(outcomes) == [1 .. MaxOutcomes -> outcomes]

Outcome(outs, n) == IF n \in DOMAIN outs THEN outs[n] ELSE "200"

\* The outcomes to draw for a step: none to choose where the step makes no POST.
Posts(inp, sends) ==
    IF sends THEN OutcomesOver(inp.outcomes) ELSE {[k \in 1 .. MaxOutcomes |-> "200"]}

send_request_mut(outcome) == [ret |-> outcome = "200", raised |-> outcome = "exception"]

\* _send_request: True on status 200, False otherwise; `except Exception` returns False.
send_request(outcome) == [ret |-> outcome = "200", raised |-> FALSE]

\* One POST of msg, unless an exception is already on its way out.
request(s, msg, outs) ==
    IF s.raised THEN s
    ELSE [sent |-> Append(s.sent, [msg EXCEPT !.status = Outcome(outs, s.n)]),
          raised |-> send_request(Outcome(outs, s.n)).raised,
          n |-> s.n + 1]

send_text(s, msg, outs) == request(s, msg, outs)

\* parse_markdown_images: the paths of the images, in order.
RECURSIVE parse_markdown_images(_)
parse_markdown_images(content) ==
    IF content = << >> THEN << >>
    ELSE content[1].images \o parse_markdown_images(Tail(content))

convert_relative_to_url(path) == IF path = "asset" THEN "url" ELSE None

\* extract_images_from_content: the text without the images, and the URLs of the images
\* that have one.
extract_images_from_content(content) ==
    LET paths == parse_markdown_images(content)
        urls == [k \in DOMAIN paths |->
                    IF paths[k] = "http" THEN paths[k]
                    ELSE convert_relative_to_url(paths[k])]
    IN  [cleaned |-> [k \in DOMAIN content |-> [content[k] EXCEPT !.images = << >>]],
         image_urls |-> SelectSeq(urls, LAMBDA u : u # None)]

Min(a, b) == IF a < b THEN a ELSE b

\* _build_data_content: the URLs of card card_index (from 0).
build_data_content(img_urls, card_index, cfg) ==
    LET start_idx == card_index * cfg.max_img_per_card
        end_idx == Min(start_idx + cfg.max_img_per_card, Len(img_urls))
    IN  SubSeq(img_urls, start_idx + 1, end_idx)

build_card_payloads(img_urls, cfg) ==
    IF img_urls = << >> \/ cfg.card_template_id = "" THEN << >>
    ELSE LET img_num == Len(img_urls)
             card_num == (img_num + cfg.max_img_per_card - 1) \div cfg.max_img_per_card
         IN  [i \in 1 .. card_num |-> build_data_content(img_urls, i - 1, cfg)]

\* `for i, payload in enumerate(payloads)`: one POST for each card.
RECURSIVE send_payloads(_, _, _)
send_payloads(s, payloads, outs) ==
    IF payloads = << >> THEN s
    ELSE send_payloads(request(s, Msg("card", << >>, "", Head(payloads)), outs),
                       Tail(payloads), outs)

send_card_notices(s, img_urls, cfg, outs) ==
    IF s.raised THEN s ELSE send_payloads(s, build_card_payloads(img_urls, cfg), outs)

\* send_with_images: the text (with a pointer to the images below, if any), then the cards.
send_with_images(s, content, cfg, outs) ==
    LET e == extract_images_from_content(content)
        text == Msg("answer", e.cleaned,
                    IF e.image_urls # << >> THEN "see_images_below" ELSE "", << >>)
        s1 == send_text(s, text, outs)
    IN  IF e.image_urls # << >> THEN send_card_notices(s1, e.image_urls, cfg, outs) ELSE s1

Sent_mut(after, s, outs) ==
    IF s.raised
    THEN [after EXCEPT !.pc = "crashed", !.raised = TRUE, !.sent = s.sent]
    ELSE [after EXCEPT !.sent = s.sent]

\* The task after a step whose sends went as s: `after` if the step raised nothing; if
\* an exception is on its way out, process_message's except branch sends the apology
\* and the task returns.
Sent(after, s, outs) ==
    IF s.raised
    THEN Finished([after EXCEPT
            !.raised = TRUE,
            !.sent = send_text([s EXCEPT !.raised = FALSE], Notice("apology"), outs).sent])
    ELSE [after EXCEPT !.sent = s.sent]

(***************************************************************************)
(* handler.py: process_message up to the stream                            *)
(***************************************************************************)
handle_stop_command_mut(task, m, t, success, outs) ==
    LET g == get_or_create(m, task.x, t) IN
    [map |-> g.map,
     task |-> Sent(Finished([task EXCEPT !.kind = "stop",
                                         !.interrupted = Append(@, g.ret)]),
                   send_text(Sender(task),
                             Notice(IF success THEN "stopped" ELSE "stop_failed"), outs),
                   outs)]

\* _handle_stop_command: the mapped agent session, if any, is interrupted; one message
\* reports the outcome (`success` is what session_service.interrupt returned).
handle_stop_command(task, m, t, success, outs) ==
    LET g == get_or_create(m, task.x, t) IN
    [map |-> g.map,
     task |-> IF g.ret # None
              THEN Sent(Finished([task EXCEPT !.kind = "stop",
                                              !.interrupted = Append(@, g.ret)]),
                        send_text(Sender(task),
                                  Notice(IF success THEN "stopped" ELSE "stop_failed"),
                                  outs),
                        outs)
              ELSE Sent(Finished([task EXCEPT !.kind = "stop"]),
                        send_text(Sender(task), Notice("no_active_task"), outs),
                        outs)]

\* process_message lines 89-115 and _process_agent_stream lines 134-142: the session is
\* resolved, the request built, a resumed session refreshed, and the stream opened.
begin_turn(task, m, t, outs) ==
    LET g == get_or_create(m, task.x, t) IN
    IF ~valid_prompt(clean_content(task.content))
    THEN [map |-> g.map,
          task |-> Sent([task EXCEPT !.kind = "query"],
                        [Sender(task) EXCEPT !.raised = TRUE], outs)]
    ELSE
    [map |-> IF g.ret # None THEN update_activity(g.map, task.x, g.ret, t).map ELSE g.map,
     task |-> [task EXCEPT !.pc = "stream", !.kind = "query", !.session_id = g.ret,
                           !.agent_session_id = g.ret]]

\* process_message up to its first read of the agent stream, or to its return.
process_message(task, m, t, success, outs) ==
    LET c == cleanup_expired(m, t).map IN
    IF match_faq(task.content)
    THEN [map |-> c,
          task |-> Sent(Finished([task EXCEPT !.kind = "faq"]),
                        send_text(Sender(task), Notice("faq_answer"), outs), outs)]
    ELSE IF is_stop_command(task.content)
    THEN handle_stop_command(task, c, t, success, outs)
    ELSE begin_turn(task, c, t, outs)

(***************************************************************************)
(* The inputs a specification draws from: the inbound texts, the           *)
(* configurations, the outcomes of the POSTs, the number of questions of   *)
(* an ask_user_question event, the `result` field of a result event, the   *)
(* payload of an error event, the content of an assistant_message, and     *)
(* the external sessions the webhooks come from and the agent sessions     *)
(* session_created names.                                                  *)
(***************************************************************************)
PlainAnswer == <<[tag |-> "none", text |-> "w", images |-> << >>]>>

PlainError == [message |-> "e1", type |-> "T1"]

PlainInputs ==
    [sessions |-> ExternalIds, agents |-> AgentIds, contents |-> PlainContents,
     configs |-> {DefaultConfig},
     outcomes |-> {"200"}, questions |-> 1 .. MaxQuestionsSent,
     results |-> {<< >>, PlainAnswer}, errors |-> {PlainError},
     assistants |-> {PlainAnswer}, history |-> FALSE]

\* The events a task has read are kept with it where a specification asks for them.
Kept(inp, value, old) == IF inp.history THEN value ELSE old

\* Whether process_message sends a message before it reads the stream, or instead.
Answered(c) == match_faq(c) \/ is_stop_command(c) \/ ~valid_prompt(clean_content(c))

\* What session_service.interrupt may return, where the text has it called.
Interrupts(c) == IF is_stop_command(c) THEN BOOLEAN ELSE {TRUE}

\* A webhook for external session x arrives and its task runs to its first read of the
\* stream, or to its return.
Receive(t, inp) ==
    /\ htasks[t].pc \in {"new", "done"}
    /\ \E x \in inp.sessions, c \in inp.contents, cfg \in inp.configs :
       \E success \in Interrupts(c), outs \in Posts(inp, Answered(c)) :
          LET r == process_message([NewHTask EXCEPT !.x = x, !.content = c,
                                                    !.config = cfg],
                                   session_map, now, success, outs)
          IN  /\ session_map' = r.map
              /\ Scheduled(t, r.task)
    /\ UNCHANGED <<now, lastOp, updates, lifecycleVars,
                    streamVars, legacyVars, discoveryVars, managerVars>>

\* SpecHandler: every task handles one webhook.
ReceiveOnce(t) ==
    /\ htasks[t].pc = "new"
    /\ \A u \in 1 .. (t - 1) : htasks[u].pc # "new"
    /\ Receive(t, PlainInputs)

Streaming(t) == htasks[t].pc = "stream" /\ ~htasks[t].closing

\* The stream yields session_created (only for a request without session id, once).
SessionCreated(t, inp) ==
    /\ Streaming(t)
    /\ htasks[t].session_id = None
    /\ ~htasks[t].created
    /\ \E a \in inp.agents :
          /\ session_map' = update_activity(session_map, htasks[t].x, a, now).map
          /\ Scheduled(t, [htasks[t] EXCEPT !.agent_session_id = a, !.created = TRUE])
    /\ UNCHANGED <<now, lastOp, updates, lifecycleVars,
                    streamVars, legacyVars, discoveryVars, managerVars>>

\* The stream yields assistant_message: _process_agent_stream has no branch for it.
AssistantMessage(t, inp) ==
    /\ Streaming(t)
    /\ Len(htasks[t].assistant) < MaxAssistant
    /\ \E content \in inp.assistants :
          Scheduled(t, [htasks[t] EXCEPT !.assistant = Append(@, content)])
    /\ UNCHANGED <<mapperVars, lifecycleVars,
                    streamVars, legacyVars, discoveryVars, managerVars>>

\* `for question in questions`: one message for each of the n questions left.
RECURSIVE send_questions(_, _, _)
send_questions(s, n, outs) ==
    IF n = 0 THEN s ELSE send_questions(send_text(s, Notice("question"), outs), n - 1, outs)

\* The stream yields ask_user_question with n questions: one message is sent for each.
AskUserQuestion(t, inp) ==
    /\ Streaming(t)
    /\ \E n \in inp.questions, outs \in OutcomesOver(inp.outcomes) :
          /\ Len(htasks[t].sent) + n <= MaxQuestionsSent
          /\ Scheduled(t, Sent([htasks[t] EXCEPT
                                   !.has_sent_question = TRUE,
                                   !.message_count = @ + n,
                                   !.asked = Kept(inp, Append(@, n), @)],
                               send_questions(Sender(htasks[t]), n, outs), outs))
    /\ UNCHANGED <<mapperVars, lifecycleVars,
                    streamVars, legacyVars, discoveryVars, managerVars>>

result_is_sent_mut(task, result) == result # << >>

\* Lines 168 and 176: the result is sent if no question was and the field is not empty.
result_is_sent(task, result) == ~task.has_sent_question /\ result # << >>

\* The stream yields result, with or without the result field; the stream ends after it.
ResultEvent(t, inp) ==
    /\ Streaming(t)
    /\ \E result \in inp.results :
       \E outs \in Posts(inp, result_is_sent(htasks[t], result)) :
          LET task == [htasks[t] EXCEPT
                          !.closing = TRUE,
                          !.result = Kept(inp, [seen |-> TRUE, content |-> result], @)]
          IN  IF result_is_sent(task, result)
              THEN Scheduled(t, Sent([task EXCEPT !.message_count = @ + 1],
                                     send_with_images(Sender(task), result,
                                                      task.config, outs),
                                     outs))
              ELSE Scheduled(t, task)
    /\ UNCHANGED <<mapperVars, lifecycleVars,
                    streamVars, legacyVars, discoveryVars, managerVars>>

\* `error_data.get('message', '未知错误')`
error_text(e) == IF e.message = None THEN "unknown_error" ELSE e.message

\* The stream yields error (process_query caught an exception); the stream ends after it.
ErrorEvent(t, inp) ==
    /\ Streaming(t)
    /\ \E e \in inp.errors, outs \in OutcomesOver(inp.outcomes) :
          Scheduled(t, Sent([htasks[t] EXCEPT !.closing = TRUE],
                            send_text(Sender(htasks[t]),
                                      Msg("error", << >>, error_text(e), << >>), outs),
                            outs))
    /\ UNCHANGED <<mapperVars, lifecycleVars,
                    streamVars, legacyVars, discoveryVars, managerVars>>

\* The stream is exhausted: the fallback is sent if message_count is 0.
StreamEnd(t, inp) ==
    /\ htasks[t].pc = "stream"
    /\ \E outs \in Posts(inp, htasks[t].message_count = 0) :
          Scheduled(t, Finished(
             IF htasks[t].message_count = 0
             THEN Sent(htasks[t], send_text(Sender(htasks[t]), Notice("fallback"), outs),
                       outs)
             ELSE htasks[t]))
    /\ UNCHANGED <<mapperVars, lifecycleVars,
                    streamVars, legacyVars, discoveryVars, managerVars>>

\* Reading or parsing an event raises: process_message's except branch sends the apology.
StreamRaises(t, inp) ==
    /\ htasks[t].pc = "stream"
    /\ \E outs \in OutcomesOver(inp.outcomes) :
          Scheduled(t, Sent(htasks[t], [Sender(htasks[t]) EXCEPT !.raised = TRUE], outs))
    /\ UNCHANGED <<mapperVars, lifecycleVars,
                    streamVars, legacyVars, discoveryVars, managerVars>>

\* Time passes between the steps of the tasks.
HandlerTick ==
    /\ now < MaxTime
    /\ now' = now + 1
    /\ UNCHANGED <<session_map, lastOp, updates, handlerVars, streamVars, legacyVars,
                   lifecycleVars, discoveryVars, managerVars>>

InitHandler ==
    /\ now = 0
    /\ session_map = << >>
    /\ lastOp = NoOp
    /\ updates = << >>
    /\ htasks = [t \in HTaskIds |-> NewHTask]
    /\ IdleLifecycle
    /\ IdleManager
    /\ IdleDiscovery
    /\ IdleStream
    /\ IdleLegacy

NextHandler ==
    \/ \E t \in HTaskIds : ReceiveOnce(t)
    \/ \E t \in HTaskIds : SessionCreated(t, PlainInputs)
    \/ \E t \in HTaskIds : AskUserQuestion(t, PlainInputs)
    \/ \E t \in HTaskIds : ResultEvent(t, PlainInputs)
    \/ \E t \in HTaskIds : ErrorEvent(t, PlainInputs)
    \/ \E t \in HTaskIds : StreamEnd(t, PlainInputs)
    \/ \E t \in HTaskIds : StreamRaises(t, PlainInputs)
    \/ HandlerTick

SpecHandler == InitHandler /\ [][NextHandler]_vars

\* SpecTurn: the webhooks handled one after the other, each by a task that takes the
\* place of the one that returned; the inbound texts are those of Contents, the long
\* ones and those that hold neither a keyword nor a key taken plain.
TurnInputs ==
    [PlainInputs EXCEPT
        !.contents = {c \in Contents :
                         (c.has = "none" \/ c.len > MAX_STOP_COMMAND_LENGTH)
                            => (~c.mention /\ ~c.upper)}]

NextTurn ==
    \/ Receive(1, TurnInputs)
    \/ SessionCreated(1, TurnInputs)
    \/ AskUserQuestion(1, TurnInputs)
    \/ ResultEvent(1, TurnInputs)
    \/ ErrorEvent(1, TurnInputs)
    \/ StreamEnd(1, TurnInputs)
    \/ StreamRaises(1, TurnInputs)
    \/ HandlerTick

SpecTurn == InitHandler /\ [][NextTurn]_vars

\* SpecTranslate: one turn after the other of one session at one instant, with every
\* configuration,
\* every outcome of the POSTs, and results and assistant messages with images.
AnswersWithImages ==
    {<<seg>> : seg \in SegmentsOver({"none"}, {"w"},
                                    SeqsUpTo({"asset", "other"}, MaxImages))}

ErrorEvents == [message : {None, "e1", "e2"}, type : {"T1", "T2"}]

TranslateInputs ==
    [sessions |-> {"x1"},
     agents |-> {"a1"},
     contents |-> {c \in PlainContents : c.has = "none"},
     configs |-> {cfg \in Configs : ~cfg.verbose},
     outcomes |-> SendOutcomes,
     questions |-> 1 .. MaxQuestionsSent,
     results |-> {<< >>} \cup AnswersWithImages,
     errors |-> ErrorEvents,
     assistants |-> {a \in AnswersWithImages : a[1].images = <<"asset">>},
     history |-> TRUE]

NextTranslate ==
    \/ Receive(1, TranslateInputs)
    \/ SessionCreated(1, TranslateInputs)
    \/ AssistantMessage(1, TranslateInputs)
    \/ AskUserQuestion(1, TranslateInputs)
    \/ ResultEvent(1, TranslateInputs)
    \/ ErrorEvent(1, TranslateInputs)
    \/ StreamEnd(1, TranslateInputs)
    \/ StreamRaises(1, TranslateInputs)

SpecTranslate == InitHandler /\ [][NextTranslate]_vars

\* SpecStop: task 1 handles the queries of the external sessions, one turn after the
\* other, while task 2 handles the stop commands that arrive in between.
QueryInputs == [PlainInputs EXCEPT !.contents = {c \in PlainContents : c.has = "none"}]

StopInputs == [PlainInputs EXCEPT !.contents = {c \in PlainContents : c.has = "keyword"}]

NextStop ==
    \/ Receive(1, QueryInputs)
    \/ SessionCreated(1, QueryInputs)
    \/ AskUserQuestion(1, QueryInputs)
    \/ ResultEvent(1, QueryInputs)
    \/ ErrorEvent(1, QueryInputs)
    \/ StreamEnd(1, QueryInputs)
    \/ StreamRaises(1, QueryInputs)
    \/ Receive(2, StopInputs)
    \/ HandlerTick

SpecStop == InitHandler /\ [][NextStop]_vars

\* SpecFailure: two tasks, each handling one webhook, with texts that make a request
\* and texts of which nothing is left to ask, streams that raise while they are read,
\* and POSTs that fail.
FailureInputs ==
    [PlainInputs EXCEPT
        !.agents = {"a1"},
        !.contents = {c \in PlainContents : c.has = "none"} \cup {MentionOnly},
        !.outcomes = {"200", "exception"},
        !.questions = {1}]

NextFailure ==
    \/ \E t \in HTaskIds : htasks[t].pc = "new" /\ Receive(t, FailureInputs)
    \/ \E t \in HTaskIds : SessionCreated(t, FailureInputs)
    \/ \E t \in HTaskIds : AskUserQuestion(t, FailureInputs)
    \/ \E t \in HTaskIds : ResultEvent(t, FailureInputs)
    \/ \E t \in HTaskIds : ErrorEvent(t, FailureInputs)
    \/ \E t \in HTaskIds : StreamEnd(t, FailureInputs)
    \/ \E t \in HTaskIds : StreamRaises(t, FailureInputs)

SpecFailure == InitHandler /\ [][NextFailure]_vars

(***************************************************************************)
(* api/handlers/yunzhijia/handler.py, tag_extractor.py: the translator     *)
(* that reads the tags of the assistant's messages. Its process_message,   *)
(* its stop and FAQ handling, its sender and its session mapper read as    *)
(* the plugin's; its _process_agent_stream differs.                        *)
(***************************************************************************)
\* extract_tags: the segments inside the tag whose stripped text is not empty.
extract_tags(content, tag_name) ==
    SelectSeq(content, LAMBDA seg : seg.tag = tag_name /\ seg.text # "")

extract_replies(content) == extract_tags(content, "reply")

extract_asks(content) == extract_tags(content, "ask")

\* `for ask in asks`: each is sent at once, with the hint to reply.
RECURSIVE send_asks(_, _, _)
send_asks(s, asks, outs) ==
    IF asks = << >> THEN s
    ELSE send_asks(send_text(s, Msg("ask", <<Head(asks)>>, "reply_hint", << >>), outs),
                   Tail(asks), outs)

\* _handle_assistant_content: the sends, the buffer of replies, and the number returned.
handle_assistant_content(verbose, content, s, reply_buffer, outs) ==
    IF verbose
    THEN [s |-> send_text(s, Msg("raw", content, "", << >>), outs),
          reply_buffer |-> reply_buffer, ret |-> 1]
    ELSE LET asks == extract_asks(content)
             replies == extract_replies(content)
         IN  [s |-> send_asks(s, asks, outs),
              reply_buffer |-> reply_buffer \o [k \in DOMAIN replies |-> <<replies[k]>>],
              ret |-> Len(asks)]

\* process_message lines 98-124 and _process_agent_stream lines 151-153.
legacy_begin_turn(task, m, t, outs) ==
    LET g == get_or_create(m, task.x, t) IN
    IF ~valid_prompt(clean_content(task.content))
    THEN [map |-> g.map,
          task |-> Sent([task EXCEPT !.kind = "query"],
                        [Sender(task) EXCEPT !.raised = TRUE], outs)]
    ELSE
    [map |-> g.map,
     task |-> [task EXCEPT !.pc = "stream", !.kind = "query", !.session_id = g.ret,
                           !.agent_session_id = g.ret]]

legacy_process_message(task, m, t, success, outs) ==
    LET c == cleanup_expired(m, t).map IN
    IF match_faq(task.content)
    THEN [map |-> c,
          task |-> Sent(Finished([task EXCEPT !.kind = "faq"]),
                        send_text(Sender(task), Notice("faq_answer"), outs), outs)]
    ELSE IF is_stop_command(task.content)
    THEN handle_stop_command(task, c, t, success, outs)
    ELSE legacy_begin_turn(task, c, t, outs)

LegacyReceive(t, inp) ==
    /\ htasks[t].pc \in {"new", "done"}
    /\ \E x \in inp.sessions, c \in inp.contents, cfg \in inp.configs :
       \E success \in Interrupts(c), outs \in Posts(inp, Answered(c)) :
          LET r == legacy_process_message([NewHTask EXCEPT !.x = x, !.content = c,
                                                           !.config = cfg],
                                          session_map, now, success, outs)
          IN  /\ session_map' = r.map
              /\ Scheduled(t, r.task)
    /\ UNCHANGED <<now, lastOp, updates, lifecycleVars,
                    streamVars, legacyVars, discoveryVars, managerVars>>

\* The stream yields assistant_message: its content, if any, goes through
\* _handle_assistant_content, and the mapping of a known agent session is refreshed.
LegacyAssistantMessage(t, inp) ==
    /\ Streaming(t)
    /\ Len(htasks[t].assistant) < MaxAssistant
    /\ \E content \in inp.assistants, outs \in OutcomesOver(inp.outcomes) :
          LET task == [htasks[t] EXCEPT !.assistant = Append(@, content)]
              r == handle_assistant_content(task.config.verbose, content, Sender(task),
                                            task.reply_buffer, outs)
          IN  /\ Scheduled(t, IF content # << >>
                              THEN Sent([task EXCEPT !.message_count = @ + r.ret,
                                                     !.reply_buffer = r.reply_buffer],
                                        r.s, outs)
                              ELSE task)
              /\ session_map' =
                    IF task.agent_session_id # None /\ ~(content # << >> /\ r.s.raised)
                    THEN update_activity(session_map, task.x, task.agent_session_id,
                                         now).map
                    ELSE session_map
    /\ UNCHANGED <<now, lastOp, updates, lifecycleVars,
                    streamVars, legacyVars, discoveryVars, managerVars>>

\* The stream yields ask_user_question with n questions: one message is sent for each.
LegacyAskUserQuestion(t, inp) ==
    /\ Streaming(t)
    /\ \E n \in inp.questions, outs \in OutcomesOver(inp.outcomes) :
          /\ Len(htasks[t].sent) + n <= MaxQuestionsSent
          /\ Scheduled(t, Sent([htasks[t] EXCEPT !.message_count = @ + n,
                                                 !.asked = Kept(inp, Append(@, n), @)],
                               send_questions(Sender(htasks[t]), n, outs), outs))
    /\ UNCHANGED <<mapperVars, lifecycleVars,
                    streamVars, legacyVars, discoveryVars, managerVars>>

\* `for reply in reply_buffer`: each buffered reply is sent with its images.
RECURSIVE send_replies(_, _, _, _)
send_replies(s, replies, cfg, outs) ==
    IF replies = << >> THEN s
    ELSE send_replies(send_with_images(s, Head(replies), cfg, outs), Tail(replies),
                      cfg, outs)

\* The stream yields result: the buffered replies are sent; the stream ends after it.
LegacyResult(t, inp) ==
    /\ Streaming(t)
    /\ \E outs \in OutcomesOver(inp.outcomes) :
          LET task == [htasks[t] EXCEPT
                          !.closing = TRUE,
                          !.result = Kept(inp, [seen |-> TRUE, content |-> << >>], @)]
          IN  Scheduled(t, Sent([task EXCEPT !.message_count = @ + Len(task.reply_buffer)],
                                send_replies(Sender(task), task.reply_buffer,
                                             task.config, outs),
                                outs))
    /\ UNCHANGED <<mapperVars, lifecycleVars,
                    streamVars, legacyVars, discoveryVars, managerVars>>

\* SpecLegacy: one turn after the other of the translator in api/handlers, at one
\* instant, with verbose on and off and assistant messages of tagged segments.
TaggedContents ==
    {c \in SeqsUpTo(SegmentsOver(Tags, {"", "w"}, {<< >>}), MaxSegments) :
        \A k \in DOMAIN c : c[k].tag = "none" => c[k].text # ""}

LegacyInputs ==
    [sessions |-> {"x1"},
     agents |-> {"a1"},
     contents |-> {c \in PlainContents : c.has = "none"},
     configs |-> {cfg \in Configs : cfg.card_template_id = ""
                                     /\ cfg.max_img_per_card = max_img_per_card_default},
     outcomes |-> {"200"},
     questions |-> 1 .. MaxQuestionsSent,
     results |-> {<< >>},
     errors |-> {PlainError},
     assistants |-> TaggedContents,
     history |-> TRUE]

NextLegacy ==
    \/ LegacyReceive(1, LegacyInputs)
    \/ SessionCreated(1, LegacyInputs)
    \/ LegacyAssistantMessage(1, LegacyInputs)
    \/ LegacyAskUserQuestion(1, LegacyInputs)
    \/ LegacyResult(1, LegacyInputs)
    \/ ErrorEvent(1, LegacyInputs)
    \/ StreamEnd(1, LegacyInputs)
    \/ StreamRaises(1, LegacyInputs)

SpecLegacy == InitHandler /\ [][NextLegacy]_vars

(***************************************************************************)
(* api/core/streaming.py: StreamProcessor                                  *)
(*                                                                         *)
(* process() is an async generator: its consumer may close it while it is  *)
(* suspended at a yield, and the task that runs it may be cancelled while  *)
(* it awaits the next message; either way the finally clause runs. The     *)
(* handling of one message is threaded through a record: the processor,    *)
(* the interrupt registry, the number of events yielded while handling the *)
(* message, the yield at which the consumer closes the generator (0: it    *)
(* does not), and whether it has been closed.                              *)
(***************************************************************************)
\* The number of messages the SDK client delivers to one stream.
MaxMessages == 3

\* The number of requests served, one after the other.
MaxStreams == 2

\* The number of content blocks of an assistant message.
MaxBlocks == 2

\* The yields of the handling of one message at which the generator may be closed.
MaxYields == 2

\* StreamProcessor.__init__ for request k with request.session_id = sid.
StreamProcessor(k, sid) ==
    [k |-> k, pc |-> "receiving", request_session_id |-> sid,
     session_service |-> TRUE, session_id_sent |-> FALSE, actual_session_id |-> sid,
     first_message_received |-> FALSE, session_registered |-> FALSE,
     events |-> << >>, registered |-> << >>, unregistered |-> << >>,
     received |-> 0, got_result |-> FALSE, ended |-> None]

NoStream == [StreamProcessor(0, None) EXCEPT !.pc = "new"]

Event(event, session_id) == [event |-> event, session_id |-> session_id]

\* InMemorySessionService.register / unregister: the ids registered for interrupt.
session_register(reg, sid) == reg \cup {sid}

session_unregister(reg, sid) == reg \ {sid}

Handling(p, reg, cancel_at) ==
    [p |-> p, reg |-> reg, yields |-> 0, cancel_at |-> cancel_at, closed |-> FALSE]

\* `yield`: the event reaches the consumer, which may close the generator there.
Yield(c, ev) ==
    IF c.closed THEN c
    ELSE [c EXCEPT !.p.events = Append(@, ev),
                   !.yields = @ + 1,
                   !.closed = (c.yields + 1 = c.cancel_at)]

ensure_session_registered(c, sid) ==
    IF c.closed THEN c
    ELSE IF ~c.p.session_registered /\ c.p.session_service
    THEN [c EXCEPT !.reg = session_register(@, sid),
                   !.p.session_registered = TRUE,
                   !.p.registered = Append(@, sid)]
    ELSE c

emit_session_created_mut(c, sid) == Yield(c, Event("session_created", sid))

\* _emit_session_created: the flag is set once the consumer has taken the event.
emit_session_created(c, sid) ==
    IF c.closed \/ c.p.session_id_sent THEN c
    ELSE LET y == Yield(c, Event("session_created", sid)) IN
         IF y.closed THEN y ELSE [y EXCEPT !.p.session_id_sent = TRUE]

\* A SystemMessage: its subtype and data['session_id'] (None if data has none).
SystemMessages == [subtype : {"init", "other"}, session_id : AgentIds \cup {None}]

handle_system_message(c, msg) ==
    IF msg.subtype = "init" /\ c.p.request_session_id = None /\ ~c.p.session_id_sent
    THEN IF msg.session_id # None
         THEN LET c1 == [c EXCEPT !.p.actual_session_id = msg.session_id] IN
              ensure_session_registered(
                  emit_session_created(c1, c1.p.actual_session_id),
                  c1.p.actual_session_id)
         ELSE c
    ELSE c

\* The blocks of an AssistantMessage: text, a TodoWrite or AskUserQuestion tool use
\* with a non-empty list, or a block that yields nothing.
Blocks == {"text", "todos", "ask", "silent"}

BlockEvent(block) ==
    CASE block = "text" -> "assistant_message"
      [] block = "todos" -> "todos_update"
      [] block = "ask" -> "ask_user_question"
      [] OTHER -> None

RECURSIVE handle_assistant_message(_, _)
handle_assistant_message(c, blocks) ==
    IF blocks = << >> THEN c
    ELSE handle_assistant_message(
            IF BlockEvent(Head(blocks)) = None THEN c
            ELSE Yield(c, Event(BlockEvent(Head(blocks)), None)),
            Tail(blocks))

\* A ResultMessage with session_id sid.
handle_result_message(c, sid) ==
    LET c1 == [c EXCEPT !.p.actual_session_id = sid]
        c2 == IF c1.p.request_session_id = None /\ ~c1.p.session_id_sent
              THEN ensure_session_registered(emit_session_created(c1, sid), sid)
              ELSE c1
    IN  Yield(c2, Event("result", sid))

\* The finally clause of process(): the session named by actual_session_id is
\* unregistered if this processor registered one.
finally_unregister(p, reg, how) ==
    IF p.session_registered /\ p.actual_session_id # None /\ p.session_service
    THEN [p |-> [p EXCEPT !.pc = "done", !.ended = how,
                          !.unregistered = Append(@, p.actual_session_id)],
          reg |-> session_unregister(reg, p.actual_session_id)]
    ELSE [p |-> [p EXCEPT !.pc = "done", !.ended = how], reg |-> reg]

\* The effects of the handling c of one message: the stream goes on to the next
\* message, or ends in the finally clause if the consumer closed the generator.
Handled(c) ==
    LET p == [c.p EXCEPT !.received = @ + 1, !.first_message_received = TRUE]
        f == finally_unregister(p, c.reg, "closed")
    IN  /\ stream' = IF c.closed THEN f.p ELSE p
        /\ interrupt_registry' = IF c.closed THEN f.reg ELSE c.reg
        /\ UNCHANGED <<lifecycleVars, managerVars, discoveryVars, mapperVars,
                       handlerVars, legacyVars>>

\* process() of the next request is started: a resumed session is registered at once.
StreamStart ==
    /\ stream.pc \in {"new", "done"}
    /\ stream.k < MaxStreams
    /\ \E sid \in AgentIds \cup {None} :
          LET p == StreamProcessor(stream.k + 1, sid)
              c == IF sid # None
                   THEN ensure_session_registered(Handling(p, interrupt_registry, 0), sid)
                   ELSE Handling(p, interrupt_registry, 0)
          IN  /\ stream' = c.p
              /\ interrupt_registry' = c.reg
    /\ UNCHANGED <<lifecycleVars, managerVars, discoveryVars, mapperVars,
                   handlerVars, legacyVars>>

\* receive_response() has more to deliver: nothing follows the ResultMessage.
Receiving ==
    /\ stream.pc = "receiving"
    /\ ~stream.got_result
    /\ stream.received < MaxMessages

ReceiveSystemMessage ==
    /\ Receiving
    /\ \E msg \in SystemMessages, cancel_at \in 0 .. MaxYields :
          Handled(handle_system_message(
                     Handling(stream, interrupt_registry, cancel_at), msg))

ReceiveAssistantMessage ==
    /\ Receiving
    /\ \E blocks \in SeqsUpTo(Blocks, MaxBlocks), cancel_at \in 0 .. MaxYields :
          Handled(handle_assistant_message(
                     Handling(stream, interrupt_registry, cancel_at), blocks))

ReceiveResultMessage ==
    /\ Receiving
    /\ \E sid \in AgentIds, cancel_at \in 0 .. MaxYields :
          Handled(handle_result_message(
                     Handling([stream EXCEPT !.got_result = TRUE],
                              interrupt_registry, cancel_at), sid))

\* The stream ends while process() awaits the next message: receive_response() is
\* exhausted ("completed"), raises ("error"), or the task is cancelled ("cancelled").
StreamFinishes ==
    /\ stream.pc = "receiving"
    /\ \E how \in {"completed", "error", "cancelled"} :
          LET f == finally_unregister(stream, interrupt_registry, how) IN
          /\ stream' = f.p
          /\ interrupt_registry' = f.reg
    /\ UNCHANGED <<lifecycleVars, managerVars, discoveryVars, mapperVars,
                   handlerVars, legacyVars>>

InitStream ==
    /\ stream = NoStream
    /\ interrupt_registry = {}
    /\ IdleLifecycle
    /\ IdleManager
    /\ IdleDiscovery
    /\ IdleMapper
    /\ IdleHandler
    /\ IdleLegacy

NextStream ==
    \/ StreamStart
    \/ ReceiveSystemMessage
    \/ ReceiveAssistantMessage
    \/ ReceiveResultMessage
    \/ StreamFinishes

SpecStream == InitStream /\ [][NextStream]_vars

(***************************************************************************)
(* Properties of the lifecycle (SpecLifecycle)                             *)
(***************************************************************************)
LifecycleOps == {"load", "register", "start"}

\* The state each operation is defined to start from.
Predecessor(op) ==
    CASE op = "load" -> DISCOVERED
      [] op = "register" -> LOADED
      [] op = "start" -> REGISTERED

\* C1: an instance is Started only if it was Loaded and after that Registered;
\* start() on a Discovered instance returns failure and leaves it Discovered.
C1_StartedOnlyViaLoadedRegistered ==
    /\ inst.state = STARTED => passed = 2
    /\ (lastCall.op = "start" /\ lastCall.pre.state = DISCOVERED)
         => (~lastCall.ret /\ inst = lastCall.pre)

C1_Witness ==
    /\ inst.state = STARTED
    /\ lastCall.op = "start"
    /\ lastCall.ret

\* C2: load, register and start succeed only from their predecessor state; from any
\* other state they return failure and leave state, error and plugin object unchanged.
C2_OnlyFromPredecessor ==
    (lastCall.op \in LifecycleOps /\ lastCall.pre.state # Predecessor(lastCall.op))
        => /\ ~lastCall.ret
           /\ inst.state = lastCall.pre.state
           /\ inst.error = lastCall.pre.error
           /\ inst.plugin_object = lastCall.pre.plugin_object

\* C4: when load, register or start fails because the plugin's code raised, the call
\* returns failure, the state is Error, the error is the message and nothing propagates.
C4_FailureCaptured ==
    (lastCall.op \in LifecycleOps /\ lastCall.raised # None)
        => /\ ~lastCall.ret
           /\ inst.state = ERROR
           /\ inst.error = lastCall.raised
           /\ lastCall.exc = None

C4_Witness ==
    /\ lastCall.op = "start"
    /\ lastCall.raised = StartError
    /\ lastCall.hook

\* C5: stop() on an instance that is not Started returns success, invokes no hook and
\* leaves state and error unchanged.
C5_StopNoOpUnlessStarted ==
    (lastCall.op = "stop" /\ lastCall.pre.state # STARTED)
        => /\ lastCall.ret
           /\ ~lastCall.hook
           /\ inst.state = lastCall.pre.state
           /\ inst.error = lastCall.pre.error

C5_Witness ==
    /\ lastCall.op = "stop"
    /\ lastCall.pre.state = STOPPED
    /\ lastCall.pre.plugin_object.on_stop

(***************************************************************************)
(* Properties of the manager (SpecManager)                                 *)
(***************************************************************************)
\* C3: Error is absorbing: once an instance is in Error, no operation changes its state.
C3_ErrorAbsorbing ==
    [][\A p \in DOMAIN registry :
          registry[p].state = ERROR => registry'[p].state = ERROR]_vars

\* C6: an activation that does not complete leaves the instance in Error and has
\* mounted none of the endpoints it registered.
C6_NoPartialMount ==
    (lastStep.activating /\ lastStep.finished /\ ~lastStep.ok)
        => /\ registry[lastStep.id].state = ERROR
           /\ lastStep.mountedHere = 0

\* C7: when load_all completes, a plugin that is not in the enabled list is Discovered,
\* not enabled and has nothing mounted; a plugin in the list is Started if none of its
\* own steps failed and Error otherwise, whatever happened to the other plugins.
C7_LoadAllOutcome ==
    lastStep.op = "load_all_end"
        => \A p \in PluginIds :
              IF p \in Range(enabledList)
              THEN /\ registry[p].enabled
                   /\ registry[p].state = IF p \in lastStep.failed THEN ERROR ELSE STARTED
              ELSE /\ registry[p].state = DISCOVERED
                   /\ ~registry[p].enabled
                   /\ mounted[p] = 0

\* load_all completed with one enabled plugin in Error and another Started and mounted.
C7_Witness ==
    /\ lastStep.op = "load_all_end"
    /\ \E p, q \in PluginIds :
          /\ registry[p].state = ERROR
          /\ registry[q].state = STARTED
          /\ mounted[q] = 1

\* C8: while one activation is between its load and the end of its start, no other
\* coroutine performs a step of an activation.
C8_ActivationsNeverOverlap ==
    lastStep.activating
        => \A t \in TaskIds : t # lastStep.t => ~InActivation(mtasks[t])

(***************************************************************************)
(* Properties of the session mapper (SpecMapper)                           *)
(***************************************************************************)
\* C10: after update_activity(x, a) at time t0 and no later update of x, get_or_create(x)
\* at time t returns a and keeps the entry if t - t0 <= Timeout, and returns None and
\* leaves no entry for x if t - t0 > Timeout (so the next get_or_create(x) returns None).
C10_TimeoutBoundary ==
    (lastOp.op = "get_or_create" /\ lastOp.x \in DOMAIN updates)
        => LET x == lastOp.x
               u == updates[x]
           IN  IF lastOp.at - u.t0 <= Timeout
               THEN /\ lastOp.ret = u.a
                    /\ x \in DOMAIN session_map
                    /\ session_map[x].agent_session_id = u.a
                    /\ session_map[x].last_active = u.t0
               ELSE /\ lastOp.ret = None
                    /\ x \notin DOMAIN session_map

\* A read one tick past the timeout found the entry of the last update and removed it.
C10_Witness ==
    /\ lastOp.op = "get_or_create"
    /\ lastOp.x \in DOMAIN updates
    /\ lastOp.x \in DOMAIN lastOp.pre
    /\ lastOp.at - updates[lastOp.x].t0 = Timeout + 1
    /\ lastOp.x \notin DOMAIN session_map

\* C11: cleanup_expired run at time t removes exactly the entries with
\* t - last_active > Timeout and leaves every other entry as it was, in whatever order
\* the entries are visited.
C11_CleanupExact ==
    lastOp.op = "cleanup_expired"
        => session_map =
              [k \in {x \in DOMAIN lastOp.pre :
                         lastOp.at - lastOp.pre[x].last_active <= Timeout}
                  |-> lastOp.pre[k]]

\* A sweep over two entries removed the expired one and kept the other, which holds a
\* pending question.
C11_Witness ==
    /\ lastOp.op = "cleanup_expired"
    /\ Cardinality(DOMAIN lastOp.pre) = 2
    /\ \E x \in DOMAIN session_map :
          /\ DOMAIN session_map = {x}
          /\ Truthy(session_map[x].pending_questions)

\* C12: the pending questions are one slot with a destructive read:
\* set_pending_questions on a mapped session replaces whatever was stored, and
\* get_and_clear_pending_questions returns what is stored and leaves None, so that every
\* later read without a new set returns None.
C12_OneShotRead ==
    /\ (lastOp.op = "set_pending_questions" /\ lastOp.x \in DOMAIN lastOp.pre)
           => session_map[lastOp.x].pending_questions = lastOp.arg
    /\ (lastOp.op = "get_and_clear_pending_questions" /\ lastOp.x \in DOMAIN lastOp.pre)
           => /\ lastOp.ret = lastOp.pre[lastOp.x].pending_questions
              /\ session_map[lastOp.x].pending_questions = None

(***************************************************************************)
(* Properties of the message handler (SpecHandler)                         *)
(***************************************************************************)
\* The tasks whose agent turn for external session x is in flight: the request was
\* issued and its event stream is not yet fully consumed.
TurnsInFlight(x) == {t \in HTaskIds : htasks[t].pc = "stream" /\ htasks[t].x = x}

\* C9: for any external session, at most one agent turn is in flight at a time.
C9_OneTurnPerSession ==
    \A x \in ExternalIds : Cardinality(TurnsInFlight(x)) <= 1

\* C13: whenever an inbound message of an external session with a live mapping is
\* handled, or an outbound message is sent for it, the entry's last_active becomes the
\* current time.
C13_ActivityRefreshed ==
    [][\A t \in HTaskIds :
          LET x == htasks'[t].x
              inbound == htasks[t].pc \in {"new", "done"} /\ htasks'[t] # htasks[t]
              outbound == Len(htasks'[t].sent) > Len(htasks[t].sent)
              live == /\ x \in DOMAIN session_map
                      /\ now - session_map[x].last_active <= Timeout
          IN  ((inbound \/ outbound) /\ live)
                 => /\ x \in DOMAIN session_map'
                    /\ session_map'[x].last_active = now]_vars

(***************************************************************************)
(* Properties of discovery, registration and installation (SpecDiscovery)  *)
(***************************************************************************)
\* The search paths (by position) that exist and hold a valid manifest of id.
RootsOf(d, id) ==
    {k \in DOMAIN Roots :
        d[k].exists /\ \E n \in DOMAIN d[k].items : d[k].items[n] = id}

\* The ids with a valid manifest somewhere on the disk.
DiskIds(d) == {id \in PluginIds : RootsOf(d, id) # {}}

EarliestRoot(d, id) == CHOOSE k \in RootsOf(d, id) : \A j \in RootsOf(d, id) : k <= j

\* C14: discovery followed by registration yields one instance per plugin id on the
\* disk, and for an id found in more than one root the instance of the earliest root.
C14_OnePerIdEarliestRoot ==
    lastDisc.op = "load_all"
        => /\ \A i, j \in DOMAIN lastDisc.found :
                 i # j => lastDisc.found[i].id # lastDisc.found[j].id
           /\ SeenIds(lastDisc.found) = DiskIds(lastDisc.preDisk)
           /\ DOMAIN lastDisc.registered
                 = DOMAIN lastDisc.pre \cup DiskIds(lastDisc.preDisk)
           /\ \A id \in DiskIds(lastDisc.preDisk) :
                 lastDisc.registered[id].source
                    = Roots[EarliestRoot(lastDisc.preDisk, id)]

\* load_all ran over a disk with the same id under both roots.
C14_Witness ==
    /\ lastDisc.op = "load_all"
    /\ \E id \in PluginIds :
          /\ Cardinality(RootsOf(lastDisc.preDisk, id)) = 2
          /\ lastDisc.registered[id].source = "bundled"

\* The registry right after the last operation registered what it found.
RegisteredAfter == IF lastDisc.op = "load_all" THEN lastDisc.registered ELSE registry

\* C15: an instance already in the registry is never replaced: after the registrations
\* of a load_all or an install, every instance that was registered before is as it was.
C15_NeverReplaced ==
    lastDisc.op \in {"load_all", "install"}
        => \A id \in DOMAIN lastDisc.pre :
              /\ id \in DOMAIN RegisteredAfter
              /\ RegisteredAfter[id] = lastDisc.pre[id]

\* The position of a name in the sorted order of the names.
Pos(n) == CHOOSE i \in DOMAIN DirNames : DirNames[i] = n

\* The valid candidates of a disk: root, name, id.
ValidCandidates(d) ==
    {c \in [k : DOMAIN Roots, n : PluginIds, id : PluginIds] :
        d[c.k].exists /\ c.n \in DOMAIN d[c.k].items /\ d[c.k].items[c.n] = c.id}

\* Whether candidate b is visited before candidate c.
Before(b, c) == b.k < c.k \/ (b.k = c.k /\ Pos(b.n) < Pos(c.n))

\* Whether discover_all returned candidate c, in state Discovered.
Returned(c) ==
    \E j \in DOMAIN lastDisc.found :
        /\ lastDisc.found[j] = [id |-> c.id, source |-> Roots[c.k],
                                path |-> <<Roots[c.k], c.n>>]
        /\ InstanceOf(lastDisc.found[j]).state = DISCOVERED

\* discover_all did not raise and returned nothing but valid candidates.
OnlyValidReturned ==
    /\ ~lastDisc.raised
    /\ \A j \in DOMAIN lastDisc.found :
          \E c \in ValidCandidates(lastDisc.preDisk) : 
              lastDisc.found[j].path = <<Roots[c.k], c.n>> /\ lastDisc.found[j].id = c.id

\* C16 as stated: discover_all never raises, skips every bad candidate and returns
\* every valid candidate of every root in state Discovered.
C16_EveryValidReturned ==
    lastDisc.op = "load_all"
        => /\ OnlyValidReturned
           /\ \A c \in ValidCandidates(lastDisc.preDisk) : Returned(c)

\* C16 amended: discover_all never raises, skips every bad candidate and returns every
\* valid candidate whose id no candidate visited before it declares.
C16_EveryFirstValidReturned ==
    lastDisc.op = "load_all"
        => /\ OnlyValidReturned
           /\ \A c \in ValidCandidates(lastDisc.preDisk) :
                 Returned(c) <=> ~\E b \in ValidCandidates(lastDisc.preDisk) :
                                     b.id = c.id /\ Before(b, c)

\* A bad candidate under the first root was skipped and a valid one under the second
\* root was returned.
C16_Witness ==
    /\ lastDisc.op = "load_all"
    /\ \E n \in DOMAIN lastDisc.preDisk[1].items :
          lastDisc.preDisk[1].items[n] \in BadManifests
    /\ \E c \in ValidCandidates(lastDisc.preDisk) : c.k = 2 /\ Returned(c)

\* C17: install_plugin of a plugin whose id is in the registry returns None and leaves
\* the registry and the disk as they were.
C17_InstallConflictChangesNothing ==
    (lastDisc.op = "install" /\ lastDisc.arg \in DOMAIN lastDisc.pre)
        => /\ lastDisc.ret = None
           /\ registry = lastDisc.pre
           /\ disk = lastDisc.preDisk

\* The id installed was that of a started plugin, with no directory of that name under
\* the installed root.
C17_Witness ==
    /\ lastDisc.op = "install"
    /\ lastDisc.arg \in DOMAIN lastDisc.pre
    /\ lastDisc.pre[lastDisc.arg].state = STARTED
    /\ lastDisc.arg \notin DOMAIN lastDisc.preDisk[2].items

\* C18: after a successful install_plugin the new instance is registered in state
\* Discovered, not enabled, with source installed; the enabled list, the mounted
\* routers and the other instances are as they were.
C18_InstallNeverEnables ==
    (lastDisc.op = "install" /\ lastDisc.ret # None)
        => /\ lastDisc.ret \in DOMAIN registry
           /\ registry[lastDisc.ret].state = DISCOVERED
           /\ ~registry[lastDisc.ret].enabled
           /\ registry[lastDisc.ret].source = "installed"
           /\ registry[lastDisc.ret].plugin_object = NoObject
           /\ enabledList = lastDisc.preList
           /\ mounted = lastDisc.preMounted
           /\ \A id \in DOMAIN lastDisc.pre : registry[id] = lastDisc.pre[id]

\* A plugin whose id is in the enabled list was installed.
C18_Witness ==
    /\ lastDisc.op = "install"
    /\ lastDisc.ret # None
    /\ lastDisc.ret \in Range(enabledList)
    /\ lastDisc.ret \in DOMAIN disk[2].items

(***************************************************************************)
(* Properties of enable_plugin and disable_plugin (SpecToggle)             *)
(***************************************************************************)
\* The plugins with a router mounted on the host.
MountedSet(m) == {p \in DOMAIN m : m[p] > 0}

\* The last call repeated the call before it: the same operation on the same id, the
\* plugin's code behaving the same way.
Repeated ==
    /\ lastDisc.op \in {"enable", "disable"}
    /\ lastDisc.prev = [op |-> lastDisc.op, arg |-> lastDisc.arg, oc |-> lastDisc.oc]

DisabledStarted ==
    /\ lastDisc.op = "disable"
    /\ lastDisc.arg \in DOMAIN lastDisc.pre
    /\ lastDisc.pre[lastDisc.arg].state = STARTED

\* No call removed a mounted router.
NothingUnmounted ==
    \A p \in DOMAIN lastDisc.preMounted : mounted[p] >= lastDisc.preMounted[p]

\* C20 as stated: disable_plugin on a Started plugin leaves it Stopped and its id out of
\* the enabled list, with its routers still mounted; no operation unmounts a router.
C20_DisableStops ==
    /\ NothingUnmounted
    /\ DisabledStarted
          => /\ registry[lastDisc.arg].state = STOPPED
             /\ lastDisc.arg \notin Range(enabledList)
             /\ mounted = lastDisc.preMounted

\* C20 amended: the plugin is left Stopped unless its on_stop hook raised, and then it
\* is left Started.
C20_DisableStopsUnlessHookRaises ==
    /\ NothingUnmounted
    /\ DisabledStarted
          => /\ registry[lastDisc.arg].state =
                    IF /\ hasattr_on_stop(lastDisc.pre[lastDisc.arg].plugin_object)
                       /\ lastDisc.oc.ho = "raise"
                    THEN STARTED ELSE STOPPED
             /\ lastDisc.arg \notin Range(enabledList)
             /\ mounted = lastDisc.preMounted

\* A Started plugin with a mounted router was disabled and is Stopped.
C20_Witness ==
    /\ DisabledStarted
    /\ registry[lastDisc.arg].state = STOPPED
    /\ lastDisc.arg \in Range(lastDisc.preList)
    /\ mounted[lastDisc.arg] > 0

(***************************************************************************)
(* Properties of the short circuits and the session of a turn (SpecTurn)   *)
(***************************************************************************)
\* The kinds of the messages sent, in order.
Kinds(sent) == [k \in DOMAIN sent |-> sent[k].kind]

\* The number of messages of a kind among those sent.
CountOf(sent, kind) == Cardinality({k \in DOMAIN sent : sent[k].kind = kind})

\* External session x has a mapping that has not timed out.
Live(x) == x \in DOMAIN session_map /\ now - session_map[x].last_active <= Timeout

\* Task t handles a webhook in this step.
Handles(t) == htasks[t].pc \in {"new", "done"} /\ htasks'[t] # htasks[t]

\* A cleaned text of at most MAX_STOP_COMMAND_LENGTH characters that holds a stop
\* keyword, whatever its case.
StopText(c) == c.len <= MAX_STOP_COMMAND_LENGTH /\ c.has = "keyword"

\* A cleaned text that equals a key of FAQ_MAP, whatever its case.
FaqText(c) == c.has = "faq_key"

\* C21: a stop-command message for an external session with no mapped agent session
\* produces exactly one outbound message, the no-active-task notice, and makes no call
\* to the session-interrupt registry.
C21_NoActiveTask ==
    [][\A t \in HTaskIds :
          (Handles(t) /\ StopText(htasks'[t].content) /\ ~Live(htasks'[t].x))
             => /\ htasks'[t].pc = "done"
                /\ Kinds(htasks'[t].sent) = <<"no_active_task">>
                /\ htasks'[t].interrupted = << >>]_vars

\* A stop command of exactly MAX_STOP_COMMAND_LENGTH characters, in upper case and with
\* a mention, was answered by the no-active-task notice.
C21_Witness ==
    \E t \in HTaskIds :
       /\ htasks[t].pc = "done"
       /\ StopText(htasks[t].content)
       /\ htasks[t].content.len = MAX_STOP_COMMAND_LENGTH
       /\ htasks[t].content.upper
       /\ htasks[t].content.mention
       /\ Kinds(htasks[t].sent) = <<"no_active_task">>
       /\ htasks[t].interrupted = << >>

\* C22: a message classified as a stop command never starts an agent turn; it calls the
\* session-interrupt registry at most once, and only when the session has a live
\* mapping, and sends exactly one outbound message (stopped, stop failed, or no active
\* task), so at most one stopped acknowledgment is sent per interrupt.
C22_StopNeverStartsTurn ==
    [][\A t \in HTaskIds :
          (Handles(t) /\ htasks'[t].kind = "stop")
             => /\ htasks'[t].pc = "done"
                /\ htasks'[t].session_id = None
                /\ Len(htasks'[t].interrupted) <= 1
                /\ htasks'[t].interrupted # << >> <=> Live(htasks'[t].x)
                /\ htasks'[t].interrupted # << >>
                      => htasks'[t].interrupted[1]
                            = session_map[htasks'[t].x].agent_session_id
                /\ Len(htasks'[t].sent) = 1
                /\ htasks'[t].sent[1].kind \in {"stopped", "stop_failed", "no_active_task"}
                /\ CountOf(htasks'[t].sent, "stopped") <= Len(htasks'[t].interrupted)]_vars

\* A stop command interrupted the mapped agent session and was acknowledged.
C22_Witness ==
    \E t \in HTaskIds :
       /\ htasks[t].pc = "done"
       /\ htasks[t].kind = "stop"
       /\ Len(htasks[t].interrupted) = 1
       /\ htasks[t].interrupted[1] \in AgentIds
       /\ Kinds(htasks[t].sent) = <<"stopped">>

\* C23: when the cleaned inbound text equals a configured FAQ key ignoring case, exactly
\* one outbound message (the canned answer) is sent and the task returns with no agent
\* session involved: no agent request, no interrupt, and no mapping resolved, created
\* or refreshed for the session.
C23_FaqShortCircuit ==
    [][\A t \in HTaskIds :
          (Handles(t) /\ FaqText(htasks'[t].content))
             => LET x == htasks'[t].x
                IN  /\ htasks'[t].pc = "done"
                    /\ Kinds(htasks'[t].sent) = <<"faq_answer">>
                    /\ htasks'[t].interrupted = << >>
                    /\ htasks'[t].session_id = None
                    /\ htasks'[t].agent_session_id = None
                    /\ x \in DOMAIN session_map'
                          => /\ x \in DOMAIN session_map
                             /\ session_map'[x] = session_map[x]]_vars

\* A FAQ key written in upper case was answered for a session that has a mapping.
C23_Witness ==
    \E t \in HTaskIds :
       /\ htasks[t].pc = "done"
       /\ FaqText(htasks[t].content)
       /\ htasks[t].content.upper
       /\ Kinds(htasks[t].sent) = <<"faq_answer">>
       /\ htasks[t].x \in DOMAIN session_map

Consumed(t) ==
    /\ htasks[t].pc = "done"
    /\ htasks[t].kind = "query"
    /\ CountOf(htasks[t].sent, "apology") = 0

\* The stream of task t yielded one ask_user_question and then result, and no error.
QuestionThenResult(t) ==
    /\ Consumed(t)
    /\ Len(htasks[t].asked) = 1
    /\ htasks[t].result.seen
    /\ CountOf(htasks[t].sent, "error") = 0

\* C24 as stated: for an agent stream that emits ask_user_question and then result,
\* exactly one outbound message is sent for the turn, the formatted question, and
\* nothing is sent for the result.
C24_OneQuestionMessage ==
    \A t \in HTaskIds :
       QuestionThenResult(t) => Kinds(htasks[t].sent) = <<"question">>

\* C24 amended: one outbound message is sent for each question the ask_user_question
\* event carries, and nothing is sent for the result (no answer, no fallback).
C24_OneMessagePerQuestion ==
    \A t \in HTaskIds :
       QuestionThenResult(t)
          => Kinds(htasks[t].sent) = [k \in 1 .. htasks[t].asked[1] |-> "question"]

\* An event with two questions was followed by a result with content.
C24_Witness ==
    \E t \in HTaskIds :
       /\ QuestionThenResult(t)
       /\ htasks[t].asked = <<2>>
       /\ htasks[t].result.content # << >>
       /\ Len(htasks[t].sent) = 2

\* The stream of task t yielded assistant_message only and then result, the result
\* carrying the assistant's content.
AssistantThenResult(t) ==
    /\ Consumed(t)
    /\ htasks[t].asked = << >>
    /\ htasks[t].assistant # << >>
    /\ htasks[t].result.seen
    /\ htasks[t].result.content = htasks[t].assistant[Len(htasks[t].assistant)]
    /\ CountOf(htasks[t].sent, "error") = 0

\* ceil(k / n)
CeilDiv(k, n) == (k + n - 1) \div n

\* C25: for an agent stream that emits only assistant_message and then result, exactly
\* one text message with the content is sent, followed by one media message per group
\* of N embedded images (ceil(k/N) for k images, N the configured per-card maximum), and
\* nothing else.
C25_TextThenMediaGroups ==
    \A t \in HTaskIds :
       AssistantThenResult(t)
          => LET content == htasks[t].result.content
                 k == Len(parse_markdown_images(content))
                 N == htasks[t].config.max_img_per_card
             IN  /\ Kinds(htasks[t].sent)
                       = <<"answer">> \o [i \in 1 .. CeilDiv(k, N) |-> "card"]
                 /\ htasks[t].sent[1].body = extract_images_from_content(content).cleaned

\* C26: assistant output that is not wrapped in a final-answer delimiter never reaches
\* the user: no outbound message carries a segment that stood outside the tags.
C26_UndelimitedNeverSent ==
    \A t \in HTaskIds :
       \A k \in DOMAIN htasks[t].sent :
          \A j \in DOMAIN htasks[t].sent[k].body : htasks[t].sent[k].body[j].tag # "none"

\* C27: after the stream of a turn has been fully consumed, the fallback has been sent
\* if and only if no other outbound message was sent during the turn; so every
\* completed turn sent at least one message and the fallback never accompanies a
\* question, an answer or an error message of the same turn.
C27_FallbackIffNothingSent ==
    \A t \in HTaskIds :
       Consumed(t)
          => LET fallbacks == CountOf(htasks[t].sent, "fallback")
                 others == Len(htasks[t].sent) - fallbacks
             IN  /\ Len(htasks[t].sent) >= 1
                 /\ fallbacks <= 1
                 /\ fallbacks = 1 <=> others = 0

\* The text sent for an error event that carries no message.
GenericErrorText == error_text([message |-> None, type |-> None])

\* C28: the outbound message sent for an agent error event is generic: whatever message
\* or type the error event carries, the same text is sent.
C28_ErrorMessageGeneric ==
    \A t \in HTaskIds :
       \A k \in DOMAIN htasks[t].sent :
          htasks[t].sent[k].kind = "error" => htasks[t].sent[k].detail = GenericErrorText

\* C30: a failed outbound send (non-200 response or transport exception) never raises
\* into the translator and never prevents the later sends of the same turn: whatever
\* the outcomes, the step that handles a result with content attempts the text and
\* then every card, and the task goes on reading the stream.
C30_FailedSendNeverAborts ==
    [][\A t \in HTaskIds :
          (/\ ~htasks[t].result.seen
           /\ htasks'[t].result.seen
           /\ htasks'[t].asked = << >>
           /\ htasks'[t].result.content # << >>)
             => LET e == extract_images_from_content(htasks'[t].result.content)
                    payloads == build_card_payloads(e.image_urls, htasks'[t].config)
                    sent == htasks'[t].sent
                IN  /\ htasks'[t].pc = "stream"
                    /\ Len(sent) = 1 + Len(payloads)
                    /\ sent[1].kind = "answer"
                    /\ \A i \in DOMAIN payloads :
                          sent[1 + i].kind = "card" /\ sent[1 + i].urls = payloads[i]]_vars

\* The text send got a non-200 response, the first card send raised, and the second
\* card was still attempted.
C30_Witness ==
    \E t \in HTaskIds :
       /\ htasks[t].pc = "stream"
       /\ htasks[t].result.seen
       /\ Len(htasks[t].sent) = 3
       /\ htasks[t].sent[1].kind = "answer"
       /\ htasks[t].sent[1].status = "non200"
       /\ htasks[t].sent[2].kind = "card"
       /\ htasks[t].sent[2].status = "exception"
       /\ htasks[t].sent[3].kind = "card"

(***************************************************************************)
(* Properties of the error field and of the pending questions              *)
(***************************************************************************)
\* C31: an instance in Loaded, Registered, Started or Stopped carries no error: a
\* successful load, register, start or stop leaves error = None.
C31_ErrorClearedOnSuccess ==
    inst.state \in {LOADED, REGISTERED, STARTED, STOPPED} => inst.error = None

\* C32: update_activity on an external session that already has an entry changes only
\* agent_session_id and last_active: the pending questions stored for the session are
\* the same before and after the call.
C32_UpdateKeepsPendingQuestions ==
    (lastOp.op = "update_activity" /\ lastOp.x \in DOMAIN lastOp.pre)
        => session_map[lastOp.x].pending_questions
              = lastOp.pre[lastOp.x].pending_questions

(***************************************************************************)
(* Properties of a stop command that meets a turn in flight (SpecStop)     *)
(***************************************************************************)
\* C33: a stop command for external session x handled while an agent turn for x is in
\* flight calls the session-interrupt registry with the agent session id of that turn
\* and is not answered with the no-active-task notice.
C33_StopReachesTurnInFlight ==
    [][(/\ Handles(2)
        /\ htasks'[2].kind = "stop"
        /\ htasks[1].pc = "stream"
        /\ htasks[1].x = htasks'[2].x)
           => /\ htasks'[2].interrupted = <<htasks[1].agent_session_id>>
              /\ CountOf(htasks'[2].sent, "no_active_task") = 0]_vars

(***************************************************************************)
(* Properties of the mounted endpoints and of the enabled flags            *)
(***************************************************************************)
\* C34: over any interleaving of load_all, enable_plugin and disable_plugin, each
\* endpoint a plugin registers is mounted on the host at most once.
C34_MountedAtMostOnce ==
    \A p \in DOMAIN mounted : mounted[p] <= RoutersRegistered

\* The enabled flag of every instance of reg equals membership of its id in list, and
\* list holds no id twice.
FlagsMatchList(reg, list) ==
    /\ \A p \in DOMAIN reg : reg[p].enabled <=> p \in Range(list)
    /\ \A j, k \in DOMAIN list : list[j] = list[k] => j = k

\* C35: after load_all, and after an install_plugin that follows it, each registered
\* instance's enabled flag equals membership of its id in the persisted enabled list,
\* and the list holds no id twice.
C35_FlagsMatchList ==
    /\ (lastDisc.op = "load_all" /\ ~lastDisc.raised)
          => FlagsMatchList(registry, enabledList)
    /\ (lastDisc.op = "install" /\ FlagsMatchList(lastDisc.pre, lastDisc.preList))
          => FlagsMatchList(registry, enabledList)

(***************************************************************************)
(* Properties of a stop whose hook raises (SpecManager)                    *)
(***************************************************************************)
\* What stop does to a Started instance i whose on_stop hook raises: it returns False,
\* lets no exception out, records the reason and leaves the state Started, so that the
\* next stop invokes the hook again.
StopHookRaises(i) ==
    LET r == lifecycle_stop(i, "raise") IN
    /\ r.hook
    /\ r.ret = FALSE
    /\ r.exc = None
    /\ r.inst = [i EXCEPT !.error = StopError]
    /\ r.inst.state = STARTED
    /\ \A o \in HookOutcomes : lifecycle_stop(r.inst, o).hook

\* C36: when the stop hook of a Started plugin raises, stop returns failure without
\* propagating the exception, records the reason in error and leaves the instance
\* Started, so a later stop invokes the hook again; stop_all goes on to every other
\* Started plugin, so that once it has returned a plugin is Started only if its hook
\* raised.
C36_StopHookFailureKeepsStarted ==
    /\ \A p \in DOMAIN registry :
          (registry[p].state = STARTED /\ hasattr_on_stop(registry[p].plugin_object))
             => StopHookRaises(registry[p])
    /\ phase = "stopped"
          => \A p \in DOMAIN registry :
                registry[p].state = STARTED => registry[p].error = StopError

\* stop_all has returned with no request served before it: the hook of the first plugin
\* raised and left it Started with the reason, and the second plugin was stopped.
C36_Witness ==
    /\ phase = "stopped"
    /\ \A t \in 1 .. MaxRequests : mtasks[t].pc = "new"
    /\ registry[Plugins[1]].state = STARTED
    /\ registry[Plugins[1]].error = StopError
    /\ registry[Plugins[2]].state = STOPPED
    /\ hasattr_on_stop(registry[Plugins[2]].plugin_object)

(***************************************************************************)
(* Properties of the stream processor (SpecStream)                         *)
(***************************************************************************)
\* The positions of the events of a kind among those the stream has yielded.
EventsOf(kind) == {k \in DOMAIN stream.events : stream.events[k].event = kind}

\* C37: every agent session id the processor registers with the interrupt registry is
\* unregistered when its stream ends, however it ends and whatever session id the
\* result message reports.
C37_RegisteredIsUnregistered ==
    stream.pc = "done"
        => \A j \in DOMAIN stream.registered :
              \E k \in DOMAIN stream.unregistered :
                 stream.unregistered[k] = stream.registered[j]

\* C38: for one request the processor yields at most one session_created event and
\* registers the session at most once; it yields no session_created for a request that
\* resumes a session; and a session_created it yields precedes the result event.
C38_SessionCreatedOnce ==
    /\ Cardinality(EventsOf("session_created")) <= 1
    /\ Len(stream.registered) <= 1
    /\ stream.request_session_id # None => EventsOf("session_created") = {}
    /\ \A j \in EventsOf("session_created"), k \in EventsOf("result") : j < k

\* A new session whose stream delivered an assistant message and the result message
\* only: session_created was yielded by the result message, before the result event,
\* and the session was registered once.
C38_Witness ==
    /\ stream.pc = "done"
    /\ stream.request_session_id = None
    /\ stream.received = 2
    /\ Len(stream.events) = 3
    /\ stream.events[1].event = "assistant_message"
    /\ stream.events[2].event = "session_created"
    /\ stream.events[3].event = "result"
    /\ Len(stream.registered) = 1

(***************************************************************************)
(* The plugin mapper against the legacy mapper (SpecEquiv)                 *)
(***************************************************************************)
\* The external-to-agent mapping and the last_active values of a session_map.
Mapping(m) == [x \in DOMAIN m |-> <<m[x].agent_session_id, m[x].last_active>>]

\* C39: run side by side on the same sequence of get_or_create, update_activity and
\* cleanup_expired calls and the same clock, PluginSessionMapper and the legacy
\* SessionMapper return the same results and hold the same external-to-agent mapping
\* and last_active values after every step.
C39_MappersEquivalent ==
    /\ lastOp.ret = legacy.ret
    /\ Mapping(session_map) = Mapping(legacy.map)

\* Both mappers hold one live entry after a sweep that removed another, expired one.
C39_Witness ==
    /\ lastOp.op = "cleanup_expired"
    /\ Cardinality(DOMAIN lastOp.pre) = 2
    /\ Cardinality(DOMAIN session_map) = 1
    /\ Cardinality(DOMAIN legacy.map) = 1

(***************************************************************************)
(* Properties of a message whose handling raises (SpecFailure)             *)
(***************************************************************************)
\* C40: an exception raised while a task handles its message (the request cannot be
\* built, reading or parsing the stream raises) is caught in process_message: the task
\* returns after sending exactly one apology, a fixed text, as its last message; no
\* other task is touched by the step; and an apology is sent for no other reason.
C40_ExceptionCaughtOneApology ==
    [][\A t \in HTaskIds :
          htasks'[t] # htasks[t]
             => /\ htasks'[t].pc \in {"stream", "done"}
                /\ htasks'[t].raised
                      => /\ htasks'[t].pc = "done"
                         /\ CountOf(htasks'[t].sent, "apology") = 1
                         /\ [htasks'[t].sent[Len(htasks'[t].sent)] EXCEPT !.status = None]
                               = Notice("apology")
                         /\ \A u \in HTaskIds \ {t} : htasks'[u] = htasks[u]
                /\ ~htasks'[t].raised
                      => CountOf(htasks'[t].sent, "apology") = 0]_vars

\* The stream of one task raised after a question had been sent and the task sent the
\* apology, although that POST failed; the message of the other task, of which nothing
\* was left to ask, was answered by the apology alone.
C40_Witness ==
    \E t, u \in HTaskIds :
       /\ htasks[t].pc = "done"
       /\ htasks[t].raised
       /\ Kinds(htasks[t].sent) = <<"question", "apology">>
       /\ htasks[t].sent[2].status = "exception"
       /\ htasks[u].pc = "done"
       /\ htasks[u].raised
       /\ htasks[u].content = MentionOnly
       /\ Kinds(htasks[u].sent) = <<"apology">>

====
